---- MODULE Spec2Model ----
(***************************************************************************)
(* A model of the TACo storage SDK: the TacoStorage orchestrator           *)
(* (core/storage), the encryption service boundary (core/encryption) and   *)
(* the storage adapters (SQLite, Kubo, Helia, Pinata, and any third-party  *)
(* implementation of IStorageAdapter).                                     *)
(*                                                                         *)
(* One behaviour of the model is the life of one TacoStorage instance over *)
(* one adapter instance.  Every public operation is one action; the        *)
(* adapters' methods are operators from the backend state to an outcome    *)
(* and a new backend state, so that the orchestrator actions and the       *)
(* direct adapter calls share one translation of the adapter code.         *)
(*                                                                         *)
(* Strings that the code takes apart (locators) are records                *)
(* [pre, kind, id, cid]: a prefix followed by a token that is a caller id, *)
(* a content identifier, blanks or nothing.  A content identifier is the   *)
(* content it is the hash of: equal content, equal identifier.             *)
(* Time is counted in hours.                                               *)
(***************************************************************************)
EXTENDS Integers, Sequences, FiniteSets, TLC

\* ------------------------------------------------------------------ bounds
MaxTime == 1
MaxUuid == 1
MaxBlocks == 1
MaxRows == 2
MaxCallers == 2

\* ------------------------------------------------------- program constants
DefaultExpiryHours == 24
DefaultLimit == 100
DefaultOffset == 0

\* ------------------------------------------------------------------- state
VARIABLES
  backend,        \* which IStorageAdapter implementation the instance wraps
  hasList,        \* whether that adapter has a list method
  schema,         \* SQLite: the tables exist (setupDatabase has run)
  isClosed,       \* SQLite: SQLiteAdapter.isClosed
  client,         \* Kubo/Pinata: client # null; Helia: helia and fs # null
  items,          \* SQLite: rows of table items
  item_data,      \* SQLite: rows of table item_data
  files,           \* Pinata: the files uploaded, by the number of their file id
  blocks,         \* Kubo/Helia: the contents the node holds; Pinata: the files left
  pins,           \* Kubo/Helia: pinned content identifiers
  encInitialized, \* TacoEncryptionService.initialized
  now,            \* the clock (new Date())
  last,           \* the last call: what was called and how it ended
  pc,             \* overlapping calls: where each caller's call in progress stands
  pending,        \* overlapping calls: the arguments of each call in progress
  done,           \* overlapping calls: how each caller's last completed call ended
  closeCalls      \* SQLite: the calls of db.close the connection has received

vars == <<backend, hasList, schema, isClosed, client, items, item_data, files, blocks,
          pins, encInitialized, now, last, pc, pending, done, closeCalls>>

\* ----------------------------------------------------------------- domains
Backends == {"sqlite", "kubo", "helia", "pinata", "custom"}
ContentAddressed == {"kubo", "helia"}
CallerIds == {"a"}
Uuid(n) == IF n = 1 THEN "u1" ELSE IF n = 2 THEN "u2" ELSE "u3"
FileId(n) == IF n = 1 THEN "f1" ELSE IF n = 2 THEN "f2" ELSE IF n = 3 THEN "f3" ELSE "f4"
Plaintexts == {<<1>>, <<2, 2>>}
EmptyBytes == <<>>
NoCondition == [kind |-> "none", expiry |-> 0]
CustomCondition == [kind |-> "custom", expiry |-> 0]
TimeCondition(endTime) == [kind |-> "time", expiry |-> endTime]
\* no content identifier, and the identifier of a content no node holds
NoHash == <<>>
FakeCid == <<"fake">>

\* ----------------------------------------------------------------- strings
Str(pre, kind, id, cid) == [pre |-> pre, kind |-> kind, id |-> id, cid |-> cid]
IdStr(i) == Str("", "id", i, NoHash)
CidStr(c) == Str("", "cid", "", c)
EmptyStr == Str("", "empty", "", NoHash)
BlankStr == Str("", "blank", "", NoHash)
\* a value that is not a string, and not falsy: a number, an object
NotAString == Str("", "other", "", NoHash)
\* typeof id === 'string'
IsString(s) == s.kind # "other"
\* !id
IsFalsy(s) == s.pre = "" /\ s.kind = "empty"
\* id.trim().length === 0
TrimIsEmpty(s) == s.pre = "" /\ s.kind \in {"empty", "blank"}

\* ------------------------------------------------------------------ errors
NoCause == [typed |-> FALSE, type |-> "none", at |-> "none"]
NoErr == [typed |-> FALSE, type |-> "none", at |-> "none", cause |-> NoCause]
Flat(e) == [typed |-> e.typed, type |-> e.type, at |-> e.at]
\* new Error(...)
PlainError(at) == [typed |-> FALSE, type |-> "Error", at |-> at, cause |-> NoCause]
\* new TacoStorageError(type, message, originalError)
TacoStorageError(type, at, cause) ==
  [typed |-> TRUE, type |-> type, at |-> at, cause |-> cause]
\* error instanceof TacoStorageError
IsTacoStorageError(e) == e.typed

\* ---------------------------------------------------------------- metadata
\* StorageMetadata; "undefined" stands for an absent custom metadata, `extra`
\* for the fields of encryptionMetadata other than messageKit and conditions.
StorageMetadata(id, contentType, size, createdAt, custom, messageKit, conditions) ==
  [id |-> id, contentType |-> contentType, size |-> size, createdAt |-> createdAt,
   metadata |-> custom,
   encryptionMetadata |-> [messageKit |-> messageKit, conditions |-> conditions,
                           extra |-> {}],
   ipfsHash |-> NoHash]
NoMeta == StorageMetadata("", "", 0, 0, "undefined", <<>>, NoCondition)
StorageResult(id, reference, metadata) ==
  [id |-> id, reference |-> reference, metadata |-> metadata]
NoResult == StorageResult("", EmptyStr, NoMeta)
NoHealth == [healthy |-> FALSE, hasError |-> FALSE]

\* Date.toISOString() and new Date(isoString)
ToISOString(t) == <<"iso", t>>
ParseDate(s) == s[2]
\* JSON.stringify(value) and JSON.parse(text)
JSONStringify(v) == <<"json", v>>
JSONParse(s) == s[2]

\* What an adapter method hands back: a value or a thrown error, the backend
\* state it leaves, and (for the reads and the delete of the IPFS adapters) the
\* calls of the node's client it issued.
Store(its, dat, tab, blk, pin) ==
  [items |-> its, item_data |-> dat, files |-> tab, blocks |-> blk, pins |-> pin]
Outcome(st) ==
  [ok |-> TRUE, err |-> NoErr, res |-> NoResult, data |-> EmptyBytes, meta |-> NoMeta,
   bool |-> FALSE, ids |-> <<>>, health |-> NoHealth, probeFailed |-> FALSE, st |-> st,
   net |-> {}]
Throw(st, e) == [Outcome(st) EXCEPT !.ok = FALSE, !.err = e]
ReturnResult(st, r) == [Outcome(st) EXCEPT !.res = r]
ReturnObject(st, d, m) == [Outcome(st) EXCEPT !.data = d, !.meta = m]
ReturnBool(st, b) == [Outcome(st) EXCEPT !.bool = b]
ReturnIds(st, l) == [Outcome(st) EXCEPT !.ids = l]
ReturnHealth(st, h, e, f) ==
  [Outcome(st) EXCEPT !.health = [healthy |-> h, hasError |-> e], !.probeFailed = f]

\* ------------------------------------------------- BaseStorageAdapter
\* A payload argument: a Uint8Array, null, or some other value.
U8(bytes) == [kind |-> "u8", bytes |-> bytes]
NullData == [kind |-> "null", bytes |-> EmptyBytes]
OtherData == [kind |-> "other", bytes |-> <<1>>]
\* validateData passes
validateData(data) == ~(data.kind = "null" \/ data.kind # "u8" \/ Len(data.bytes) = 0)
\* the check of the id without the trim
validateIdUntrimmed(id) == ~(IsFalsy(id) \/ ~IsString(id))
\* validateId passes
validateId(id) == ~(IsFalsy(id) \/ ~IsString(id) \/ TrimIsEmpty(id))

\* ------------------------------------------------------------ SQLiteAdapter
SqlNull == <<"null", "">>
\* `sqlite://${this.dbPath}#${id}`, the database path being :memory:
sqliteGenerateReference(id) == Str("sqlite://:memory:#", "id", id, NoHash)
\* the rows a WHERE key = ? selects
RowsWithKey(rows, id) == {r \in rows : IdStr(r.key) = id}

\* a plain INSERT that leaves the row with the same key in place
InsertKeepingOld(st, row) == [st EXCEPT !.items = @ \cup {row}]
\* INSERT OR REPLACE INTO items: the row with the same primary key is deleted,
\* which cascades to item_data (foreign_keys = ON), and the new row inserted.
InsertOrReplaceItem(st, row) ==
  [st EXCEPT !.items = {r \in st.items : r.key # row.key} \cup {row},
             !.item_data = {d \in st.item_data : d.key # row.key}]
\* INSERT OR REPLACE INTO item_data
InsertOrReplaceData(st, row) ==
  [st EXCEPT !.item_data = {d \in st.item_data : d.key # row.key} \cup {row}]
\* DELETE FROM items WHERE key = ? without the cascade to item_data
DeleteItemOnly(st, id) == [st EXCEPT !.items = st.items \ RowsWithKey(st.items, id)]
\* DELETE FROM items WHERE key = ?, with ON DELETE CASCADE
DeleteItem(st, id) ==
  [st EXCEPT !.items = st.items \ RowsWithKey(st.items, id),
             !.item_data = st.item_data \ RowsWithKey(st.item_data, id)]

ItemRow(metadata) ==
  [key |-> metadata.id,
   content_type |-> metadata.contentType,
   size |-> metadata.size,
   created_at |-> ToISOString(metadata.createdAt),
   message_kit |-> metadata.encryptionMetadata.messageKit,
   conditions |-> JSONStringify(metadata.encryptionMetadata.conditions),
   metadata |-> IF metadata.metadata # "undefined"
                THEN JSONStringify(metadata.metadata) ELSE SqlNull]
DataRow(id, bytes) == [key |-> id, encrypted_data |-> bytes]

\* SQLiteAdapter.store; `up`: the connection is open and the schema exists;
\* `fault` = k > 0: the k-th statement of the call fails.
sqliteStore(st, up, fault, encryptedData, metadata) ==
  IF ~validateData(encryptedData) THEN Throw(st, PlainError("validateData"))
  ELSE IF ~up \/ fault = 1
  THEN Throw(st, TacoStorageError("STORAGE_ERROR", "sqlite.store", Flat(PlainError("sqlite"))))
  ELSE LET s1 == InsertOrReplaceItem(st, ItemRow(metadata))
           s2 == InsertOrReplaceData(s1, DataRow(metadata.id, encryptedData.bytes))
       IN IF fault = 2
          THEN Throw(s1, TacoStorageError("STORAGE_ERROR", "sqlite.store",
                                          Flat(PlainError("sqlite"))))
          ELSE ReturnResult(s2, StorageResult(metadata.id,
                                              sqliteGenerateReference(metadata.id),
                                              metadata))

\* the row of SELECT ... FROM items i LEFT JOIN item_data d ... WHERE i.key = ?
JoinedData(st, row) ==
  LET ds == {d \in st.item_data : d.key = row.key}
  IN IF ds = {} THEN EmptyBytes ELSE (CHOOSE d \in ds : TRUE).encrypted_data

\* SQLiteAdapter.retrieve
sqliteRetrieve(st, up, fault, id) ==
  IF ~validateId(id) THEN Throw(st, PlainError("validateId"))
  ELSE IF ~up \/ fault = 1
  THEN Throw(st, TacoStorageError("RETRIEVAL_ERROR", "sqlite.retrieve",
                                  Flat(PlainError("sqlite"))))
  ELSE LET rows == RowsWithKey(st.items, id)
       IN IF rows = {}
          THEN Throw(st, TacoStorageError("NOT_FOUND", "sqlite.retrieve", NoCause))
          ELSE LET row == CHOOSE r \in rows : TRUE
                   encryptedData == JoinedData(st, row)
                   metadata ==
                     StorageMetadata(row.key, row.content_type, row.size,
                                     ParseDate(row.created_at),
                                     IF row.metadata # SqlNull
                                     THEN JSONParse(row.metadata) ELSE "undefined",
                                     row.message_kit,
                                     JSONParse(row.conditions))
               IN ReturnObject(st, encryptedData, metadata)

\* SQLiteAdapter.exists
sqliteExists(st, up, fault, id) ==
  IF ~validateId(id) THEN Throw(st, PlainError("validateId"))
  ELSE IF ~up \/ fault = 1
  THEN Throw(st, TacoStorageError("STORAGE_ERROR", "sqlite.exists",
                                  Flat(PlainError("sqlite"))))
  ELSE ReturnBool(st, RowsWithKey(st.items, id) # {})

\* SQLiteAdapter.delete: exists, DELETE, exists
sqliteDelete(st, up, fault, id) ==
  IF ~validateId(id) THEN Throw(st, PlainError("validateId"))
  ELSE LET before == sqliteExists(st, up, fault, id)
       IN IF ~before.ok
          THEN Throw(st, TacoStorageError("STORAGE_ERROR", "sqlite.delete", Flat(before.err)))
          ELSE IF ~before.bool THEN ReturnBool(st, FALSE)
          ELSE IF fault = 2
          THEN Throw(st, TacoStorageError("STORAGE_ERROR", "sqlite.delete",
                                          Flat(PlainError("sqlite"))))
          ELSE LET s1 == DeleteItem(st, id)
                   after == sqliteExists(s1, up, IF fault = 3 THEN 1 ELSE 0, id)
               IN IF ~after.ok
                  THEN Throw(s1, TacoStorageError("STORAGE_ERROR", "sqlite.delete",
                                                  Flat(after.err)))
                  ELSE ReturnBool(s1, ~after.bool)

\* the sequences ORDER BY created_at DESC may produce
RowOrders(rows) ==
  {o \in [1..Cardinality(rows) -> rows] :
     /\ \A i, j \in DOMAIN o : i # j => o[i] # o[j]
     /\ \A i, j \in DOMAIN o :
          i < j => ParseDate(o[i].created_at) >= ParseDate(o[j].created_at)}
OrderedKeys(rows) == {[i \in DOMAIN o |-> o[i].key] : o \in RowOrders(rows)}
\* LIMIT ? with the OFFSET left out
LimitOnly(seq, limit, offset) ==
  IF limit < Len(seq) THEN SubSeq(seq, 1, limit) ELSE seq
\* LIMIT ? OFFSET ?
LimitOffset(seq, limit, offset) ==
  LET first == offset + 1
      lastIx == IF offset + limit < Len(seq) THEN offset + limit ELSE Len(seq)
  IN IF first > lastIx THEN <<>> ELSE SubSeq(seq, first, lastIx)

\* SQLiteAdapter.list; `order` is the order the query yields the rows in
sqliteList(st, up, fault, order, limit, offset) ==
  IF ~up \/ fault = 1
  THEN Throw(st, TacoStorageError("RETRIEVAL_ERROR", "sqlite.list",
                                  Flat(PlainError("sqlite"))))
  ELSE ReturnIds(st, LimitOffset(order, limit, offset))

\* SQLiteAdapter.getHealth; `integrity` is the result of PRAGMA integrity_check
sqliteGetHealth(st, up, fault, integrity) ==
  IF ~up \/ fault \in {1, 2}
  THEN ReturnHealth(st, FALSE, TRUE, TRUE)
  ELSE ReturnHealth(st, integrity = "ok", FALSE, FALSE)

\* ---------------------------------------------------------- BaseIPFSAdapter
\* CID.parse(hash) succeeds
validateIPFSHash(hash) == hash.pre = "" /\ hash.kind = "cid"
\* `ipfs://${hash}`
formatReference(c) == Str("ipfs://", "cid", "", c)
\* reference.startsWith('ipfs://') ? reference.slice(7) : reference
parseReference(reference) ==
  IF reference.pre = "ipfs://" THEN [reference EXCEPT !.pre = ""] ELSE reference
createIPFSMetadata(c, originalMetadata) == [originalMetadata EXCEPT !.ipfsHash = c]
\* TacoStorageErrorType has no member INVALID_REFERENCE: the type of the
\* error validateAndParseReference and parseCID throw is undefined.
InvalidReferenceError(at) == TacoStorageError("undefined", at, NoCause)
validateAndParseReferenceOk(reference) == validateIPFSHash(parseReference(reference))

\* JSON.stringify(dataPackage): the payload and the metadata with createdAt as
\* an ISO string
DataPackage(bytes, metadata) ==
  JSONStringify([data |-> bytes,
                 metadata |-> [metadata EXCEPT !.createdAt = ToISOString(metadata.createdAt)]])
\* result.cid of client.add / fs.addBytes: the identifier of a content, and
\* the content an identifier names
CidOf(content) == content
BlockOf(ipfsHash) == ipfsHash
\* the metadata KuboAdapter.retrieve and HeliaAdapter.retrieve rebuild: the
\* spread of the stored fields, createdAt parsed, and encryptedKey and capsule
\* added to encryptionMetadata
IPFSRebuiltMetadata(content) ==
  LET dataPackage == JSONParse(content)
  IN [dataPackage.metadata EXCEPT
        !.createdAt = ParseDate(dataPackage.metadata.createdAt),
        !.encryptionMetadata.extra = @ \cup {"encryptedKey", "capsule"}]

\* -------------------------------------------------------------- KuboAdapter
shouldPin == TRUE
KuboNotInitialized == TacoStorageError("ADAPTER_ERROR", "kubo.ensureClient", NoCause)

\* KuboAdapter.store (addContent: client.add with pin: shouldPin)
kuboStore(st, hasClient, fault, encryptedData, metadata) ==
  IF ~validateData(encryptedData) THEN Throw(st, PlainError("validateData"))
  ELSE IF ~hasClient
  THEN Throw(st, TacoStorageError("STORAGE_ERROR", "kubo.store", Flat(KuboNotInitialized)))
  ELSE IF fault = 1
  THEN Throw(st, TacoStorageError("STORAGE_ERROR", "kubo.store", Flat(PlainError("ipfs"))))
  ELSE LET content == DataPackage(encryptedData.bytes, metadata)
           ipfsHash == CidOf(content)
           s1 == [st EXCEPT !.blocks = @ \cup {ipfsHash},
                            !.pins = IF shouldPin THEN @ \cup {ipfsHash} ELSE @]
       IN ReturnResult(s1, StorageResult(metadata.id, formatReference(ipfsHash),
                                         createIPFSMetadata(ipfsHash, metadata)))

\* KuboAdapter.retrieve; `notFound`: the client reports absent content with
\* the code ERR_NOT_FOUND (it may as well time out)
kuboRetrieve(st, hasClient, fault, notFound, id) ==
  IF ~validateId(id) THEN Throw(st, PlainError("validateId"))
  ELSE IF ~validateAndParseReferenceOk(id)
  THEN Throw(st, TacoStorageError("RETRIEVAL_ERROR", "kubo.retrieve",
                                  Flat(InvalidReferenceError("validateAndParseReference"))))
  ELSE IF ~hasClient
  THEN Throw(st, TacoStorageError("RETRIEVAL_ERROR", "kubo.retrieve",
                                  Flat(KuboNotInitialized)))
  ELSE LET ipfsHash == parseReference(id).cid
           out ==
             IF fault = 1
             THEN Throw(st, TacoStorageError("RETRIEVAL_ERROR", "kubo.retrieve",
                                             Flat(PlainError("ipfs"))))
             ELSE IF ipfsHash \notin st.blocks
             THEN IF notFound
                  THEN Throw(st, TacoStorageError("NOT_FOUND", "kubo.retrieve",
                                                  Flat(PlainError("ipfs"))))
                  ELSE Throw(st, TacoStorageError("RETRIEVAL_ERROR", "kubo.retrieve",
                                                  Flat(PlainError("ipfs"))))
             ELSE ReturnObject(st, JSONParse(BlockOf(ipfsHash)).data,
                               IPFSRebuiltMetadata(BlockOf(ipfsHash)))
       IN [out EXCEPT !.net = {"cat"}]

\* KuboAdapter.delete (unpinContent: client.pin.rm, which is handed the locator
\* without its prefix, whatever it is, and fails at the node when that is no
\* content identifier)
kuboDelete(st, hasClient, fault, id) ==
  IF ~validateId(id) THEN Throw(st, PlainError("validateId"))
  ELSE LET ipfsHash == parseReference(id)
       IN IF ~shouldPin \/ ~hasClient THEN ReturnBool(st, TRUE)
          ELSE IF fault = 0 /\ validateIPFSHash(ipfsHash)
          THEN [ReturnBool([st EXCEPT !.pins = @ \ {ipfsHash.cid}], TRUE)
                  EXCEPT !.net = {"pin.rm"}]
          ELSE [ReturnBool(st, TRUE) EXCEPT !.net = {"pin.rm"}]

\* KuboAdapter.exists (contentExists: client.files.stat)
kuboExists(st, hasClient, fault, id) ==
  IF ~validateId(id) THEN Throw(st, PlainError("validateId"))
  ELSE IF ~validateAndParseReferenceOk(id) THEN ReturnBool(st, FALSE)
  ELSE IF ~hasClient THEN ReturnBool(st, FALSE)
  ELSE IF fault = 1 THEN [ReturnBool(st, FALSE) EXCEPT !.net = {"files.stat"}]
  ELSE [ReturnBool(st, parseReference(id).cid \in st.blocks) EXCEPT !.net = {"files.stat"}]

\* KuboAdapter.getHealth
kuboGetHealth(st, hasClient, fault) ==
  IF ~hasClient \/ fault >= 1
  THEN ReturnHealth(st, FALSE, TRUE, TRUE)
  ELSE ReturnHealth(st, TRUE, FALSE, FALSE)

\* ------------------------------------------------------------- HeliaAdapter
HeliaNotInitialized == TacoStorageError("ADAPTER_ERROR", "helia.ensureHeliaReady", NoCause)

\* HeliaAdapter.store: addContent (fs.addBytes), then pinContent (pins.add)
heliaStore(st, ready, fault, encryptedData, metadata) ==
  IF ~validateData(encryptedData) THEN Throw(st, PlainError("validateData"))
  ELSE IF ~ready
  THEN Throw(st, TacoStorageError("STORAGE_ERROR", "helia.store", Flat(HeliaNotInitialized)))
  ELSE IF fault = 1
  THEN Throw(st, TacoStorageError("STORAGE_ERROR", "helia.store", Flat(PlainError("ipfs"))))
  ELSE LET content == DataPackage(encryptedData.bytes, metadata)
           ipfsHash == CidOf(content)
           s1 == [st EXCEPT !.blocks = @ \cup {ipfsHash}]
           s2 == [s1 EXCEPT !.pins = @ \cup {ipfsHash}]
       IN IF fault = 2
          THEN Throw(s1, TacoStorageError("STORAGE_ERROR", "helia.store",
                                          Flat(PlainError("ipfs"))))
          ELSE ReturnResult(s2, StorageResult(metadata.id, formatReference(ipfsHash),
                                              createIPFSMetadata(ipfsHash, metadata)))

\* HeliaAdapter.retrieve; `notFound`: fs.cat reports absent content with a
\* message that includes 'not found' (it may as well time out)
heliaRetrieve(st, ready, fault, notFound, id) ==
  IF ~validateId(id) THEN Throw(st, PlainError("validateId"))
  ELSE IF ~validateAndParseReferenceOk(id)
  THEN Throw(st, TacoStorageError("RETRIEVAL_ERROR", "helia.retrieve",
                                  Flat(InvalidReferenceError("validateAndParseReference"))))
  ELSE IF ~ready
  THEN Throw(st, TacoStorageError("RETRIEVAL_ERROR", "helia.retrieve",
                                  Flat(HeliaNotInitialized)))
  ELSE LET ipfsHash == parseReference(id).cid
           out ==
             IF fault = 1
             THEN Throw(st, TacoStorageError("RETRIEVAL_ERROR", "helia.retrieve",
                                             Flat(PlainError("ipfs"))))
             ELSE IF ipfsHash \notin st.blocks
             THEN IF notFound
                  THEN Throw(st, TacoStorageError("NOT_FOUND", "helia.getContent",
                                                  Flat(PlainError("ipfs"))))
                  ELSE Throw(st, TacoStorageError("RETRIEVAL_ERROR", "helia.retrieve",
                                                  Flat(PlainError("ipfs"))))
             ELSE ReturnObject(st, JSONParse(BlockOf(ipfsHash)).data,
                               IPFSRebuiltMetadata(BlockOf(ipfsHash)))
       IN [out EXCEPT !.net = {"fs.cat"}]

\* HeliaAdapter.delete (unpinContent: parseCID, pins.rm)
heliaDelete(st, ready, fault, id) ==
  IF ~validateId(id) THEN Throw(st, PlainError("validateId"))
  ELSE LET ipfsHash == parseReference(id)
       IN IF ~ready THEN Throw(st, HeliaNotInitialized)
          ELSE IF ~validateIPFSHash(ipfsHash) THEN ReturnBool(st, TRUE)
          ELSE IF fault = 0
          THEN [ReturnBool([st EXCEPT !.pins = @ \ {ipfsHash.cid}], TRUE)
                  EXCEPT !.net = {"pins.rm"}]
          ELSE [ReturnBool(st, TRUE) EXCEPT !.net = {"pins.rm"}]

\* HeliaAdapter.exists (contentExists: blockstore.has)
heliaExists(st, ready, fault, id) ==
  IF ~validateId(id) THEN Throw(st, PlainError("validateId"))
  ELSE IF ~validateAndParseReferenceOk(id) THEN ReturnBool(st, FALSE)
  ELSE IF ~ready THEN Throw(st, HeliaNotInitialized)
  ELSE IF fault = 1 THEN [ReturnBool(st, FALSE) EXCEPT !.net = {"blockstore.has"}]
  ELSE [ReturnBool(st, parseReference(id).cid \in st.blocks)
          EXCEPT !.net = {"blockstore.has"}]

\* HeliaAdapter.getHealth; a fault: the node is not started, or probing throws
heliaGetHealth(st, ready, fault) ==
  IF ~ready THEN ReturnHealth(st, FALSE, TRUE, TRUE)
  ELSE IF fault = 1 THEN ReturnHealth(st, FALSE, FALSE, FALSE)
  ELSE IF fault >= 2 THEN ReturnHealth(st, FALSE, TRUE, TRUE)
  ELSE ReturnHealth(st, TRUE, FALSE, FALSE)

\* ------------------------------------------------------------ PinataAdapter
PinataNotInitialized == TacoStorageError("ADAPTER_ERROR", "pinata.ensureClient", NoCause)
\* `https://${this.url}/ipfs/${id}`
pinataGenerateReference(id) == Str("https://gateway/ipfs/", "id", id, NoHash)
\* the id names a file Pinata holds, and the number of that file
PinataHas(st, id) == id.pre = "" /\ id.kind = "id" /\ \E c \in st.blocks : FileId(c) = id.id
PinataFile(st, id) == CHOOSE c \in st.blocks : FileId(c) = id.id

\* PinataAdapter.store (client.upload.public.file): every upload is a new file
pinataStore(st, hasClient, fault, encryptedData, metadata) ==
  IF ~validateData(encryptedData) THEN Throw(st, PlainError("validateData"))
  ELSE IF ~hasClient THEN Throw(st, PinataNotInitialized)
  ELSE IF fault = 1
  THEN Throw(st, TacoStorageError("STORAGE_ERROR", "pinata.store", Flat(PlainError("pinata"))))
  ELSE LET content == DataPackage(encryptedData.bytes, metadata)
           c == Len(st.files) + 1
           s1 == [st EXCEPT !.files = Append(@, content), !.blocks = @ \cup {c}]
       IN ReturnResult(s1, StorageResult(FileId(c), pinataGenerateReference(FileId(c)),
                                         metadata))

\* PinataAdapter.retrieve (client.gateways.public.get)
pinataRetrieve(st, hasClient, fault, id) ==
  IF ~validateId(id) THEN Throw(st, PlainError("validateId"))
  ELSE IF ~hasClient THEN Throw(st, PinataNotInitialized)
  ELSE IF fault = 1 \/ ~PinataHas(st, id)
  THEN Throw(st, TacoStorageError("STORAGE_ERROR", "pinata.retrieve",
                                  Flat(PlainError("pinata"))))
  ELSE LET dataPackage == JSONParse(st.files[PinataFile(st, id)])
       IN ReturnObject(st, dataPackage.data,
                       [dataPackage.metadata EXCEPT
                          !.createdAt = ParseDate(dataPackage.metadata.createdAt)])

\* a delete whose catch clause rethrows the failure of the unpin call
pinataDeleteRethrowing(st, hasClient, fault, id) ==
  IF ~validateId(id) THEN Throw(st, PlainError("validateId"))
  ELSE IF ~hasClient THEN Throw(st, PinataNotInitialized)
  ELSE IF fault = 0
  THEN ReturnBool([st EXCEPT !.blocks = IF PinataHas(st, id) THEN @ \ {PinataFile(st, id)}
                                        ELSE @], TRUE)
  ELSE Throw(st, TacoStorageError("STORAGE_ERROR", "pinata.delete",
                                  Flat(PlainError("pinata"))))
\* PinataAdapter.delete (client.files.public.delete)
pinataDelete(st, hasClient, fault, id) ==
  IF ~validateId(id) THEN Throw(st, PlainError("validateId"))
  ELSE IF ~hasClient THEN Throw(st, PinataNotInitialized)
  ELSE IF fault = 0
  THEN ReturnBool([st EXCEPT !.blocks = IF PinataHas(st, id) THEN @ \ {PinataFile(st, id)}
                                        ELSE @], TRUE)
  ELSE ReturnBool(st, TRUE)

\* PinataAdapter.exists (client.files.public.list)
pinataExists(st, hasClient, fault, id) ==
  IF ~validateId(id) THEN Throw(st, PlainError("validateId"))
  ELSE IF ~hasClient THEN Throw(st, PinataNotInitialized)
  ELSE IF fault = 1 THEN ReturnBool(st, FALSE)
  ELSE ReturnBool(st, PinataHas(st, id))

\* PinataAdapter.getHealth
pinataGetHealth(st, hasClient, fault) ==
  IF ~hasClient \/ fault >= 1
  THEN ReturnHealth(st, FALSE, TRUE, TRUE)
  ELSE ReturnHealth(st, TRUE, FALSE, FALSE)

\* ------------------------------------------- a third-party IStorageAdapter
\* An implementation of the interface about which nothing else is known: each
\* call returns a value of the declared type or throws, a TacoStorageError
\* (choice 2) or any other error (choice 1); what retrieve returns may be a
\* message kit (CustomKit) or bytes that are none (choice 3).
CustomKit == <<3, 1>>
NoKit == <<0>>
customOutcome(st, choice, okOutcome) ==
  IF choice = 0 THEN okOutcome
  ELSE IF choice = 1 THEN Throw(st, PlainError("custom"))
  ELSE Throw(st, TacoStorageError("ADAPTER_ERROR", "custom", NoCause))
customStore(st, choice, encryptedData, metadata) ==
  customOutcome(st, choice,
                ReturnResult(st, StorageResult(metadata.id, IdStr(metadata.id), metadata)))
customRetrieve(st, choice, id) ==
  IF choice = 3
  THEN ReturnObject(st, NoKit, StorageMetadata(id.id, "text/plain", Len(NoKit), 0,
                                               "undefined", NoKit, CustomCondition))
  ELSE customOutcome(st, choice,
                     ReturnObject(st, CustomKit,
                                  StorageMetadata(id.id, "text/plain", Len(CustomKit), 0,
                                                  "undefined", CustomKit, CustomCondition)))
customBool(st, choice) == customOutcome(st, choice, ReturnBool(st, choice = 0))
customList(st, choice) == customOutcome(st, choice, ReturnIds(st, <<>>))
customGetHealth(st, choice) == customOutcome(st, choice, ReturnHealth(st, TRUE, FALSE, FALSE))

\* ------------------------------------------------------- adapter dispatch
\* this.adapter.<method>(...): the method of the adapter the instance wraps.
\* `cfg` is the adapter's own state: [up, client].
adapterStore(b, st, cfg, fault, encryptedData, metadata) ==
  CASE b = "sqlite" -> sqliteStore(st, cfg.up, fault, encryptedData, metadata)
    [] b = "kubo" -> kuboStore(st, cfg.client, fault, encryptedData, metadata)
    [] b = "helia" -> heliaStore(st, cfg.client, fault, encryptedData, metadata)
    [] b = "pinata" -> pinataStore(st, cfg.client, fault, encryptedData, metadata)
    [] OTHER -> customStore(st, fault, encryptedData, metadata)
adapterRetrieve(b, st, cfg, fault, notFound, id) ==
  CASE b = "sqlite" -> sqliteRetrieve(st, cfg.up, fault, id)
    [] b = "kubo" -> kuboRetrieve(st, cfg.client, fault, notFound, id)
    [] b = "helia" -> heliaRetrieve(st, cfg.client, fault, notFound, id)
    [] b = "pinata" -> pinataRetrieve(st, cfg.client, fault, id)
    [] OTHER -> customRetrieve(st, fault, id)
adapterDelete(b, st, cfg, fault, id) ==
  CASE b = "sqlite" -> sqliteDelete(st, cfg.up, fault, id)
    [] b = "kubo" -> kuboDelete(st, cfg.client, fault, id)
    [] b = "helia" -> heliaDelete(st, cfg.client, fault, id)
    [] b = "pinata" -> pinataDelete(st, cfg.client, fault, id)
    [] OTHER -> customBool(st, fault)
adapterExists(b, st, cfg, fault, id) ==
  CASE b = "sqlite" -> sqliteExists(st, cfg.up, fault, id)
    [] b = "kubo" -> kuboExists(st, cfg.client, fault, id)
    [] b = "helia" -> heliaExists(st, cfg.client, fault, id)
    [] b = "pinata" -> pinataExists(st, cfg.client, fault, id)
    [] OTHER -> customBool(st, fault)
adapterList(b, st, cfg, fault, order, limit, offset) ==
  CASE b = "sqlite" -> sqliteList(st, cfg.up, fault, order, limit, offset)
    [] OTHER -> customList(st, fault)
adapterGetHealth(b, st, cfg, fault, integrity) ==
  CASE b = "sqlite" -> sqliteGetHealth(st, cfg.up, fault, integrity)
    [] b = "kubo" -> kuboGetHealth(st, cfg.client, fault)
    [] b = "helia" -> heliaGetHealth(st, cfg.client, fault)
    [] b = "pinata" -> pinataGetHealth(st, cfg.client, fault)
    [] OTHER -> customGetHealth(st, fault)

\* ---------------------------------------------------- TacoEncryptionService
\* The threshold encryption is outside the repository: a message kit holds the
\* plaintext and the condition it was encrypted under, its serialisation is a
\* byte for the condition followed by the ciphertext, and decrypt gives back
\* the plaintext.
ThresholdMessageKit(plain, cond) == [plain |-> plain, cond |-> cond]
CondByte(cond) == IF cond.kind = "custom" THEN 3 ELSE 4 + cond.expiry
ByteCond(b) == IF b = 3 THEN CustomCondition ELSE TimeCondition(b - 4)
\* messageKit.toBytes()
toBytes(messageKit) == <<CondByte(messageKit.cond)>> \o messageKit.plain
\* ThresholdMessageKit.fromBytes(bytes) succeeds
fromBytesOk(bytes) == Len(bytes) >= 1 /\ bytes[1] >= 3
fromBytes(bytes) == ThresholdMessageKit(Tail(bytes), ByteCond(bytes[1]))

\* TacoEncryptionService.createTimeCondition succeeds: endTime > new Date()
createTimeConditionOk(endTime, clock) == ~(endTime <= clock)
createTimeCondition(endTime) == TimeCondition(endTime)

EncOutcome ==
  [ok |-> TRUE, err |-> NoErr, messageKit |-> ThresholdMessageKit(EmptyBytes, NoCondition),
   conditions |-> NoCondition, data |-> EmptyBytes]
EncThrow(e) == [EncOutcome EXCEPT !.ok = FALSE, !.err = e]
\* TacoEncryptionService.encrypt; encFault: "init" initialize() fails,
\* "call" the library's encrypt throws
encrypt(initialized, encFault, data, condition) ==
  IF ~initialized /\ encFault = "init"
  THEN EncThrow(TacoStorageError("ENCRYPTION_ERROR", "encryption.initialize",
                                 Flat(PlainError("taco"))))
  ELSE IF Len(data) = 0
  THEN EncThrow(TacoStorageError("ENCRYPTION_ERROR", "encryption.encrypt", NoCause))
  ELSE IF encFault = "call"
  THEN EncThrow(TacoStorageError("ENCRYPTION_ERROR", "encryption.encrypt",
                                 Flat(PlainError("taco"))))
  ELSE [EncOutcome EXCEPT !.messageKit = ThresholdMessageKit(data, condition),
                          !.conditions = condition]
\* TacoEncryptionService.decrypt
decrypt(initialized, encFault, messageKit) ==
  IF ~initialized /\ encFault = "init"
  THEN EncThrow(TacoStorageError("ENCRYPTION_ERROR", "encryption.initialize",
                                 Flat(PlainError("taco"))))
  ELSE IF encFault = "call"
  THEN EncThrow(TacoStorageError("DECRYPTION_ERROR", "encryption.decrypt",
                                 Flat(PlainError("taco"))))
  ELSE [EncOutcome EXCEPT !.data = messageKit.plain]
\* this.initialized after a call of encrypt or decrypt
InitializedAfter(initialized, encFault) == initialized \/ encFault # "init"

\* -------------------------------------------------------------- TacoStorage
NoExpiry == -1
\* StoreOptions; "" and NoCondition and NoExpiry stand for an absent option
StoreOptions(id, contentType, metadata, condition, expiresAt) ==
  [id |-> id, contentType |-> contentType, metadata |-> metadata,
   condition |-> condition, expiresAt |-> expiresAt]
NoOptions == StoreOptions("", "", "undefined", NoCondition, NoExpiry)
NoHanded == [payload |-> EmptyBytes, metadata |-> NoMeta]

\* What a call of the orchestrator did: the outcome, the collaborators'
\* methods it invoked, the condition it encrypted under, what it handed to
\* adapter.store, and the encryption service's initialized flag afterwards.
Call(out, calls, encCond, handed, encInit) ==
  [out |-> out, calls |-> calls, encCond |-> encCond, handed |-> handed,
   encInit |-> encInit]

\* a catch clause that wraps whatever it catches
storeCatchWrapping(e) == TacoStorageError("STORAGE_ERROR", "TacoStorage.store", Flat(e))
\* the catch clauses: rethrow a TacoStorageError, wrap anything else
storeCatch(e) ==
  IF IsTacoStorageError(e) THEN e
  ELSE TacoStorageError("STORAGE_ERROR", "TacoStorage.store", Flat(e))
retrieveCatch(e) ==
  IF IsTacoStorageError(e) THEN e
  ELSE TacoStorageError("RETRIEVAL_ERROR", "TacoStorage.retrieve", Flat(e))
getMetadataCatch(e) ==
  IF IsTacoStorageError(e) THEN e
  ELSE TacoStorageError("RETRIEVAL_ERROR", "TacoStorage.getMetadata", Flat(e))
\* the catch clauses that wrap whatever they catch
deleteCatch(e) == TacoStorageError("STORAGE_ERROR", "TacoStorage.delete", Flat(e))
existsCatch(e) == TacoStorageError("STORAGE_ERROR", "TacoStorage.exists", Flat(e))
listCatch(e) == TacoStorageError("RETRIEVAL_ERROR", "TacoStorage.list", Flat(e))
cleanupCatch(e) == TacoStorageError("ADAPTER_ERROR", "TacoStorage.cleanup", Flat(e))

\* the check of the data left out
storeRejectsNothing(data) == FALSE
\* !data || data.length === 0
storeRejectsData(data) == Len(data) = 0
\* the check of the id left out
rejectsNoId(id) == FALSE
\* !id || typeof id !== 'string'
rejectsId(id) == IsFalsy(id) \/ ~IsString(id)

\* the size of the serialized envelope taken for the size
envelopeSize(data) == Len(data) + 1
\* size: data.length
metadataSize(data) == Len(data)

\* the default expiry whatever the options say
defaultExpiryOnly(options, clock) == clock + DefaultExpiryHours
\* options.expiresAt || new Date(now.getTime() + 24 * 60 * 60 * 1000)
defaultExpiry(options, clock) ==
  IF options.expiresAt # NoExpiry THEN options.expiresAt ELSE clock + DefaultExpiryHours

\* TacoStorage.store after the check of the data; `id` is options.id or the
\* identifier uuidv4 returned, bytesFault: messageKit.toBytes() throws
storeTry(b, st, cfg, encInit, clock, id, data, options, encFault, bytesFault, fault) ==
  LET contentType == IF options.contentType # "" THEN options.contentType
                     ELSE "application/octet-stream"
      expiresAt == defaultExpiry(options, clock)
      synth == options.condition = NoCondition
      accessConditions == IF synth THEN createTimeCondition(expiresAt)
                          ELSE options.condition
      c1 == IF synth THEN {"createTimeCondition"} ELSE {}
      enc == encrypt(encInit, encFault, data, accessConditions)
      c2 == c1 \cup {"encrypt"}
      serializedMessageKit == toBytes(enc.messageKit)
      metadata == StorageMetadata(id, contentType, metadataSize(data), clock,
                                  options.metadata,
                                  serializedMessageKit, enc.conditions)
      result == adapterStore(b, st, cfg, fault, U8(serializedMessageKit), metadata)
  IN IF synth /\ ~createTimeConditionOk(expiresAt, clock)
     THEN Call(Throw(st, storeCatch(TacoStorageError("INVALID_CONFIG",
                                                     "createTimeCondition", NoCause))),
               c1, NoCondition, NoHanded, encInit)
     ELSE IF ~enc.ok
     THEN Call(Throw(st, storeCatch(enc.err)), c2, accessConditions, NoHanded,
               InitializedAfter(encInit, encFault))
     ELSE IF bytesFault
     THEN Call(Throw(st, storeCatch(PlainError("toBytes"))), c2, accessConditions,
               NoHanded, TRUE)
     ELSE Call(IF result.ok THEN result ELSE Throw(result.st, storeCatch(result.err)),
               c2 \cup {"adapter.store"}, accessConditions,
               [payload |-> serializedMessageKit, metadata |-> metadata], TRUE)

\* TacoStorage.store
storageStore(b, st, cfg, encInit, clock, id, data, options, encFault, bytesFault, fault) ==
  IF storeRejectsData(data)
  THEN Call(Throw(st, TacoStorageError("INVALID_CONFIG", "TacoStorage.store", NoCause)),
            {}, NoCondition, NoHanded, encInit)
  ELSE storeTry(b, st, cfg, encInit, clock, id, data, options, encFault, bytesFault, fault)

\* TacoStorage.retrieve
storageRetrieve(b, st, cfg, encInit, id, encFault, fault, notFound) ==
  IF rejectsId(id)
  THEN Call(Throw(st, TacoStorageError("INVALID_CONFIG", "TacoStorage.retrieve", NoCause)),
            {}, NoCondition, NoHanded, encInit)
  ELSE LET got == adapterRetrieve(b, st, cfg, fault, notFound, id)
           messageKitBytes == got.meta.encryptionMetadata.messageKit
           dec == decrypt(encInit, encFault, fromBytes(messageKitBytes))
       IN IF ~got.ok
          THEN Call(Throw(got.st, retrieveCatch(got.err)), {"adapter.retrieve"},
                    NoCondition, NoHanded, encInit)
          ELSE IF ~fromBytesOk(messageKitBytes)
          THEN Call(Throw(got.st, retrieveCatch(PlainError("fromBytes"))),
                    {"adapter.retrieve", "fromBytes"}, NoCondition, NoHanded, encInit)
          ELSE IF ~dec.ok
          THEN Call(Throw(got.st, retrieveCatch(dec.err)),
                    {"adapter.retrieve", "fromBytes", "decrypt"}, NoCondition, NoHanded,
                    InitializedAfter(encInit, encFault))
          ELSE Call(ReturnObject(got.st, dec.data, got.meta),
                    {"adapter.retrieve", "fromBytes", "decrypt"}, NoCondition, NoHanded,
                    TRUE)

\* TacoStorage.getMetadata
storageGetMetadata(b, st, cfg, encInit, id, fault, notFound) ==
  IF rejectsId(id)
  THEN Call(Throw(st, TacoStorageError("INVALID_CONFIG", "TacoStorage.getMetadata", NoCause)),
            {}, NoCondition, NoHanded, encInit)
  ELSE LET got == adapterRetrieve(b, st, cfg, fault, notFound, id)
       IN Call(IF got.ok THEN ReturnObject(got.st, EmptyBytes, got.meta)
               ELSE Throw(got.st, getMetadataCatch(got.err)),
               {"adapter.retrieve"}, NoCondition, NoHanded, encInit)

\* TacoStorage.delete
storageDelete(b, st, cfg, encInit, id, fault) ==
  IF rejectsId(id)
  THEN Call(Throw(st, TacoStorageError("INVALID_CONFIG", "TacoStorage.delete", NoCause)),
            {}, NoCondition, NoHanded, encInit)
  ELSE LET got == adapterDelete(b, st, cfg, fault, id)
       IN Call(IF got.ok THEN got ELSE Throw(got.st, deleteCatch(got.err)),
               {"adapter.delete"}, NoCondition, NoHanded, encInit)

\* TacoStorage.exists
storageExists(b, st, cfg, encInit, id, fault) ==
  IF rejectsId(id)
  THEN Call(Throw(st, TacoStorageError("INVALID_CONFIG", "TacoStorage.exists", NoCause)),
            {}, NoCondition, NoHanded, encInit)
  ELSE LET got == adapterExists(b, st, cfg, fault, id)
       IN Call(IF got.ok THEN got ELSE Throw(got.st, existsCatch(got.err)),
               {"adapter.exists"}, NoCondition, NoHanded, encInit)

\* list without the check of the capability
storageListUnchecked(b, listed, st, cfg, encInit, fault, order, limit, offset) ==
  LET got == adapterList(b, st, cfg, fault, order, limit, offset)
  IN Call(IF got.ok THEN got ELSE Throw(got.st, listCatch(got.err)),
          {"adapter.list"}, NoCondition, NoHanded, encInit)
\* TacoStorage.list; `listed`: this.adapter.list is defined
storageList(b, listed, st, cfg, encInit, fault, order, limit, offset) ==
  IF ~listed
  THEN Call(Throw(st, TacoStorageError("ADAPTER_ERROR", "TacoStorage.list", NoCause)),
            {}, NoCondition, NoHanded, encInit)
  ELSE LET got == adapterList(b, st, cfg, fault, order, limit, offset)
       IN Call(IF got.ok THEN got ELSE Throw(got.st, listCatch(got.err)),
               {"adapter.list"}, NoCondition, NoHanded, encInit)

\* getHealth without the catch clause
storageGetHealthRethrowing(b, st, cfg, encInit, fault, integrity) ==
  Call(adapterGetHealth(b, st, cfg, fault, integrity), {"adapter.getHealth"}, NoCondition,
       NoHanded, encInit)
\* TacoStorage.getHealth
storageGetHealth(b, st, cfg, encInit, fault, integrity) ==
  LET got == adapterGetHealth(b, st, cfg, fault, integrity)
  IN Call(IF got.ok THEN got ELSE ReturnHealth(got.st, FALSE, TRUE, TRUE),
          {"adapter.getHealth"}, NoCondition, NoHanded, encInit)

\* ------------------------------------------------- the instance's life cycle
\* the backend state and the adapter's own state, as the operators take them
State == Store(items, item_data, files, blocks, pins)
Cfg == [up |-> schema /\ ~isClosed, client |-> client]
\* the identifiers a behaviour may use within the bounds
RowsWithin(st) ==
  /\ Cardinality({r.key : r \in st.items}) <= MaxRows
  /\ Len(st.files) <= MaxBlocks
  /\ Cardinality(st.blocks) <= MaxBlocks

\* the locator resolves to an object the backend holds
Resolves(b, st, id) ==
  CASE b = "sqlite" -> RowsWithKey(st.items, id) # {}
    [] b \in ContentAddressed ->
         validateAndParseReferenceOk(id) /\ parseReference(id).cid \in st.blocks
    [] b = "pinata" -> PinataHas(st, id)
    [] OTHER -> FALSE

\* the record of a call: what was called, how it ended for the caller, how the
\* adapter method it called ended (NoErr when the adapter was not called or
\* returned), for a store whether the id named an object before the call, for
\* a cleanup whether the call before it was a cleanup, and for a list the ids
\* returned
LastCall(op, via, out, called, got) ==
  [op |-> op, via |-> via, ok |-> out.ok, err |-> out.err, bool |-> out.bool,
   health |-> out.health, called |-> called, aerr |-> IF called THEN got.err ELSE NoErr,
   over |-> FALSE, ids |-> out.ids]

\* the callers whose calls may overlap, a call's arguments and a call's end
Callers == 1..MaxCallers
NoPending == [payload |-> EmptyBytes, metadata |-> NoMeta, id |-> EmptyStr, flag |-> FALSE]
NoDone ==
  [op |-> "none", ok |-> TRUE, err |-> NoErr, bool |-> FALSE, removed |-> FALSE,
   data |-> EmptyBytes, meta |-> NoMeta]
\* no call is in progress and none has ended
NoneInProgress ==
  /\ pc = [p \in Callers |-> "idle"]
  /\ pending = [p \in Callers |-> NoPending]
  /\ done = [p \in Callers |-> NoDone]
  /\ closeCalls = 0

Init ==
  /\ NoneInProgress
  /\ backend \in Backends
  /\ hasList \in (IF backend = "custom" THEN BOOLEAN ELSE {backend = "sqlite"})
  /\ schema = FALSE
  /\ isClosed = FALSE
  /\ client = FALSE
  /\ items = {}
  /\ item_data = {}
  /\ files = <<>>
  /\ blocks = {}
  /\ pins = {}
  /\ encInitialized = FALSE
  /\ now = 0
  /\ last = [op |-> "none", via |-> "none", ok |-> TRUE, err |-> NoErr, bool |-> FALSE,
             health |-> NoHealth, called |-> FALSE, aerr |-> NoErr, over |-> FALSE,
             ids |-> <<>>]

\* the backend state becomes st
Becomes(st) ==
  /\ items' = st.items
  /\ item_data' = st.item_data
  /\ files' = st.files
  /\ blocks' = st.blocks
  /\ pins' = st.pins

\* time passes
Tick ==
  /\ now < MaxTime
  /\ now' = now + 1
  /\ UNCHANGED <<backend, hasList, schema, isClosed, client, items, item_data, files,
                 blocks, pins, encInitialized, last, pc, pending, done, closeCalls>>

\* ------------------------------------------------- initialize and cleanup
LifeOutcome(ok, err, sch, closed, cl, st) ==
  [ok |-> ok, err |-> err, schema |-> sch, isClosed |-> closed, client |-> cl, st |-> st,
   bool |-> FALSE, health |-> NoHealth, ids |-> <<>>]

\* SQLiteAdapter.initialize (setupDatabase, then SELECT 1)
sqliteInitialize(st, sch, closed, fault) ==
  IF closed
  THEN LifeOutcome(FALSE, TacoStorageError("ADAPTER_ERROR", "sqlite.initialize", NoCause),
                   sch, closed, FALSE, st)
  ELSE IF fault = 1
  THEN LifeOutcome(FALSE,
                   TacoStorageError("ADAPTER_ERROR", "sqlite.initialize",
                                    Flat(TacoStorageError("ADAPTER_ERROR",
                                                          "sqlite.setupDatabase", NoCause))),
                   sch, closed, FALSE, st)
  ELSE IF fault >= 2
  THEN LifeOutcome(FALSE,
                   TacoStorageError("ADAPTER_ERROR", "sqlite.initialize",
                                    Flat(PlainError("sqlite"))),
                   TRUE, closed, FALSE, st)
  ELSE LifeOutcome(TRUE, NoErr, TRUE, closed, FALSE, st)

\* KuboAdapter.initialize: the client is created, then the node is asked for
\* its id and version
kuboInitialize(st, fault) ==
  IF fault >= 1
  THEN LifeOutcome(FALSE,
                   TacoStorageError("ADAPTER_ERROR", "kubo.initialize",
                                    Flat(PlainError("ipfs"))),
                   FALSE, FALSE, TRUE, st)
  ELSE LifeOutcome(TRUE, NoErr, FALSE, FALSE, TRUE, st)

\* HeliaAdapter.initialize: createHelia makes a new node, with an empty
\* blockstore of its own; fault 1: createHelia fails, fault 2: libp2p.start fails
heliaInitialize(st, cl, fault) ==
  LET fresh == [st EXCEPT !.blocks = {}, !.pins = {}]
  IN IF fault = 1
     THEN LifeOutcome(FALSE,
                      TacoStorageError("ADAPTER_ERROR", "helia.initialize",
                                       Flat(PlainError("ipfs"))),
                      FALSE, FALSE, cl, st)
     ELSE IF fault >= 2
     THEN LifeOutcome(FALSE,
                      TacoStorageError("ADAPTER_ERROR", "helia.initialize",
                                       Flat(PlainError("ipfs"))),
                      FALSE, FALSE, TRUE, fresh)
     ELSE LifeOutcome(TRUE, NoErr, FALSE, FALSE, TRUE, fresh)

\* PinataAdapter.initialize
pinataInitialize(st) == LifeOutcome(TRUE, NoErr, FALSE, FALSE, TRUE, st)

customLife(st, choice) ==
  IF choice = 0 THEN LifeOutcome(TRUE, NoErr, FALSE, FALSE, FALSE, st)
  ELSE IF choice = 1 THEN LifeOutcome(FALSE, PlainError("custom"), FALSE, FALSE, FALSE, st)
  ELSE LifeOutcome(FALSE, TacoStorageError("ADAPTER_ERROR", "custom", NoCause),
                   FALSE, FALSE, FALSE, st)

adapterInitialize(b, st, sch, closed, cl, fault) ==
  CASE b = "sqlite" -> sqliteInitialize(st, sch, closed, fault)
    [] b = "kubo" -> kuboInitialize(st, fault)
    [] b = "helia" -> heliaInitialize(st, cl, fault)
    [] b = "pinata" -> pinataInitialize(st)
    [] OTHER -> customLife(st, fault)

\* a cleanup without the isClosed check: closing a closed database is an error
sqliteCleanupUnguarded(st, sch, closed, fault) ==
  IF closed \/ fault >= 1
  THEN LifeOutcome(FALSE,
                   TacoStorageError("ADAPTER_ERROR", "sqlite.cleanup",
                                    Flat(PlainError("sqlite"))),
                   sch, TRUE, FALSE, st)
  ELSE LifeOutcome(TRUE, NoErr, sch, TRUE, FALSE, st)
\* SQLiteAdapter.cleanup: db.close, whose callback sets isClosed
sqliteCleanup(st, sch, closed, fault) ==
  IF closed THEN LifeOutcome(TRUE, NoErr, sch, closed, FALSE, st)
  ELSE IF fault >= 1
  THEN LifeOutcome(FALSE,
                   TacoStorageError("ADAPTER_ERROR", "sqlite.cleanup",
                                    Flat(PlainError("sqlite"))),
                   sch, TRUE, FALSE, st)
  ELSE LifeOutcome(TRUE, NoErr, sch, TRUE, FALSE, st)
\* KuboAdapter.cleanup and PinataAdapter.cleanup do nothing
noopCleanup(st, cl) == LifeOutcome(TRUE, NoErr, FALSE, FALSE, cl, st)
\* HeliaAdapter.cleanup: helia.stop(), whose error is logged; helia = fs = null
heliaCleanup(st) == LifeOutcome(TRUE, NoErr, FALSE, FALSE, FALSE, st)

adapterCleanup(b, st, sch, closed, cl, fault) ==
  CASE b = "sqlite" -> sqliteCleanup(st, sch, closed, fault)
    [] b = "kubo" -> noopCleanup(st, cl)
    [] b = "helia" -> heliaCleanup(st)
    [] b = "pinata" -> noopCleanup(st, cl)
    [] OTHER -> customLife(st, fault)

\* TacoEncryptionService.initialize succeeds
encryptionInitializeOk(initialized, encFault) == initialized \/ encFault # "init"

\* TacoStorage.initialize: adapter.initialize, then encryptionService.initialize
storageInitialize(b, st, sch, closed, cl, encInit, fault, encFault) ==
  LET a == adapterInitialize(b, st, sch, closed, cl, fault)
      encOk == encryptionInitializeOk(encInit, encFault)
  IN IF ~a.ok THEN [out |-> a, encInit |-> encInit]
     ELSE IF ~encOk
     THEN [out |-> [a EXCEPT !.ok = FALSE,
                             !.err = TacoStorageError("ENCRYPTION_ERROR",
                                                      "encryption.initialize",
                                                      Flat(PlainError("taco")))],
           encInit |-> FALSE]
     ELSE [out |-> a, encInit |-> TRUE]

\* TacoStorage.cleanup
storageCleanup(b, st, sch, closed, cl, fault) ==
  LET a == adapterCleanup(b, st, sch, closed, cl, fault)
  IN IF a.ok THEN a ELSE [a EXCEPT !.err = cleanupCatch(a.err)]

\* ------------------------------------------------------------------ inputs
\* the identifiers uuidv4 may return, and the one it returns: one no object of
\* the backend carries
Uuids == {Uuid(n) : n \in 1..MaxUuid}
UsedIds(st) ==
  {r.key : r \in st.items}
  \cup {JSONParse(st.files[c]).metadata.id : c \in DOMAIN st.files}
  \cup (IF backend \in ContentAddressed
        THEN {JSONParse(BlockOf(c)).metadata.id : c \in st.blocks} ELSE {})
uuidv4(st) == Uuid(CHOOSE n \in 1..MaxUuid : Uuid(n) \notin UsedIds(st)
                                             /\ \A m \in 1..(n - 1) : Uuid(m) \in UsedIds(st))
\* options.id || uuidv4(), and whether the identifiers at hand allow it
IdFor(options, st) == IF options.id # "" THEN options.id ELSE uuidv4(st)
CanName(options, st) == options.id = "" => Uuids \ UsedIds(st) # {}

\* the faults of one call: <<encFault, bytesFault, fault>>
NoStoreFault == <<"none", FALSE, 0>>
StoreFaults ==
  {<<"init", FALSE, 0>>, <<"call", FALSE, 0>>, <<"none", TRUE, 0>>, <<"none", FALSE, 1>>,
   <<"none", FALSE, 2>>}
\* <<encFault, fault, notFound>>
RetrieveFaults ==
  {<<"none", 0, FALSE>>, <<"none", 0, TRUE>>, <<"init", 0, TRUE>>, <<"call", 0, TRUE>>,
   <<"none", 1, TRUE>>, <<"none", 2, TRUE>>, <<"none", 3, TRUE>>}
FaultPoints == 0..3
EncFaults == {"none", "init", "call"}

\* what a caller stores: the data and the options; nothing but an id or not even
\* that, everything explicit, an expiry that has passed, no data
Defaults(i) == StoreOptions(i, "", "undefined", NoCondition, NoExpiry)
Explicit(i) == StoreOptions(i, "text/plain", "custom", CustomCondition, NoExpiry)
StoredInputs ==
  {<<(<<1>>), Defaults(i)>> : i \in CallerIds \cup {""}}
  \cup {<<(<<2, 2>>), Explicit(i)>> : i \in CallerIds \cup {""}}
StoreInputs ==
  StoredInputs
  \cup {<<(<<1>>), StoreOptions(i, "", "undefined", NoCondition, 0)>> : i \in CallerIds}
  \cup {<<EmptyBytes, NoOptions>>, <<EmptyBytes, Explicit("a")>>}
\* the calls of store: any input, and a fault during some
StoreCalls ==
  {<<input, NoStoreFault>> : input \in StoreInputs}
  \cup {<<input, f>> : input \in {<<(<<1>>), Defaults("a")>>, <<(<<2, 2>>), Explicit("")>>},
                      f \in StoreFaults}

\* the locators a caller may pass: identifiers, blanks, and what store returned
Locators ==
  {EmptyStr, BlankStr} \cup {IdStr(i) : i \in CallerIds \cup Uuids}
  \cup (CASE backend = "sqlite" -> {sqliteGenerateReference(i) : i \in CallerIds}
          [] backend \in ContentAddressed ->
               {formatReference(c) : c \in blocks} \cup {CidStr(FakeCid)}
          [] backend = "pinata" ->
               {IdStr(FileId(c)) : c \in DOMAIN files}
               \cup {pinataGenerateReference(FileId(c)) : c \in DOMAIN files}
          [] OTHER -> {})

\* what a direct caller of the adapter passes: an envelope and the metadata
\* that goes with it, or a payload validateData rejects
Envelope == toBytes(ThresholdMessageKit(<<2, 2>>, CustomCondition))
AdapterMetadata(size) ==
  StorageMetadata("a", "text/plain", size, now, "custom", Envelope, CustomCondition)
AdapterCalls ==
  {<<U8(Envelope), AdapterMetadata(2), fault>> : fault \in 0..2}
  \cup {<<x, AdapterMetadata(0), 0>> : x \in {NullData, OtherData, U8(EmptyBytes)}}

\* the limit and offset arguments of list; DefaultLimit and DefaultOffset when absent
Pages == {<<DefaultLimit, DefaultOffset>>, <<1, DefaultOffset>>, <<1, 1>>, <<0, DefaultOffset>>}
\* <<fault, integrity>>
HealthProbes == {<<0, "ok">>, <<0, "corrupt">>, <<1, "ok">>, <<2, "ok">>}

\* ----------------------------------------------------------------- actions
\* what no call made on its own changes: the adapter in use, and the record of
\* overlapping calls
Fixed == <<backend, hasList, pc, pending, done, closeCalls>>

\* TacoStorage.initialize()
TacoInitialize ==
  \E f \in {<<0, "none">>, <<1, "none">>, <<2, "none">>, <<0, "init">>} :
    LET c == storageInitialize(backend, State, schema, isClosed, client, encInitialized,
                               f[1], f[2])
    IN /\ schema' = c.out.schema
       /\ client' = c.out.client
       /\ Becomes(c.out.st)
       /\ encInitialized' = c.encInit
       /\ last' = LastCall("initialize", "storage", c.out, TRUE,
                           adapterInitialize(backend, State, schema, isClosed, client, f[1]))
       /\ UNCHANGED <<Fixed, isClosed, now>>

\* TacoStorage.cleanup()
TacoCleanup ==
  \E fault \in 0..1 :
    LET a == storageCleanup(backend, State, schema, isClosed, client, fault)
    IN /\ isClosed' = a.isClosed
       /\ client' = a.client
       /\ last' = [LastCall("cleanup", "storage", a, TRUE,
                            adapterCleanup(backend, State, schema, isClosed, client, fault))
                    EXCEPT !.over = (last.op = "cleanup")]
       /\ UNCHANGED <<Fixed, schema, items, item_data, files, blocks, pins, encInitialized,
                      now>>

\* a call of the orchestrator ended as c, the adapter method it called as got
Ended(op, c, method, got, over) ==
  /\ RowsWithin(c.out.st)
  /\ Becomes(c.out.st)
  /\ encInitialized' = c.encInit
  /\ last' = [LastCall(op, "storage", c.out, method \in c.calls, got) EXCEPT !.over = over]
  /\ UNCHANGED <<Fixed, schema, isClosed, client, now>>

\* TacoStorage.store(data, signer, options)
TacoStore ==
  \E call \in StoreCalls :
    LET data == call[1][1]
        options == call[1][2]
        f == call[2]
        id == IdFor(options, State)
        c == storageStore(backend, State, Cfg, encInitialized, now, id, data, options,
                          f[1], f[2], f[3])
    IN /\ CanName(options, State)
       /\ Ended("store", c, "adapter.store",
                adapterStore(backend, State, Cfg, f[3], U8(c.handed.payload),
                             c.handed.metadata),
                c.out.ok /\ id \in UsedIds(State))

\* TacoStorage.retrieve(id, signer)
TacoRetrieve ==
  \E id \in Locators, f \in RetrieveFaults :
    Ended("retrieve",
          storageRetrieve(backend, State, Cfg, encInitialized, id, f[1], f[2], f[3]),
          "adapter.retrieve", adapterRetrieve(backend, State, Cfg, f[2], f[3], id),
          FALSE)

\* TacoStorage.getMetadata(id)
TacoGetMetadata ==
  \E id \in Locators, fault \in 0..1 :
    Ended("getMetadata",
          storageGetMetadata(backend, State, Cfg, encInitialized, id, fault, TRUE),
          "adapter.retrieve", adapterRetrieve(backend, State, Cfg, fault, TRUE, id),
          FALSE)

\* TacoStorage.delete(id)
TacoDelete ==
  \E id \in Locators, fault \in FaultPoints :
    Ended("delete", storageDelete(backend, State, Cfg, encInitialized, id, fault),
          "adapter.delete", adapterDelete(backend, State, Cfg, fault, id),
          FALSE)

\* TacoStorage.exists(id)
TacoExists ==
  \E id \in Locators, fault \in 0..2 :
    Ended("exists", storageExists(backend, State, Cfg, encInitialized, id, fault),
          "adapter.exists", adapterExists(backend, State, Cfg, fault, id),
          FALSE)

\* TacoStorage.list(limit, offset)
TacoList ==
  \E order \in OrderedKeys(items), page \in Pages, fault \in 0..2 :
    Ended("list",
          storageList(backend, hasList, State, Cfg, encInitialized, fault, order, page[1],
                      page[2]),
          "adapter.list", adapterList(backend, State, Cfg, fault, order, page[1], page[2]),
          FALSE)

\* TacoStorage.getHealth()
TacoGetHealth ==
  \E probe \in HealthProbes :
    Ended("getHealth",
          storageGetHealth(backend, State, Cfg, encInitialized, probe[1], probe[2]),
          "adapter.getHealth", adapterGetHealth(backend, State, Cfg, probe[1], probe[2]),
          FALSE)

\* adapter.store(encryptedData, metadata), called on the adapter itself
AdapterStore ==
  \E call \in AdapterCalls :
    LET out == adapterStore(backend, State, Cfg, call[3], call[1], call[2])
    IN /\ RowsWithin(out.st)
       /\ Becomes(out.st)
       /\ last' = [LastCall("store", "adapter", out, TRUE, out)
                    EXCEPT !.over = out.ok /\ call[2].id \in UsedIds(State)]
       /\ UNCHANGED <<Fixed, schema, isClosed, client, encInitialized, now>>

Next ==
  \/ Tick
  \/ TacoInitialize
  \/ TacoCleanup
  \/ TacoStore
  \/ TacoRetrieve
  \/ TacoGetMetadata
  \/ TacoDelete
  \/ TacoExists
  \/ TacoList
  \/ TacoGetHealth
  \/ AdapterStore

Spec == Init /\ [][Next]_vars

\* ------------------------------------------------------------------ claims
\* the backends the repository ships, and the adapter being ready for calls
Shipped == {"sqlite", "kubo", "helia", "pinata"}
Ready == IF backend = "sqlite" THEN Cfg.up ELSE Cfg.client
\* TacoStorage.store(data, signer, options) called now, nothing failing
StoreNow(input) ==
  storageStore(backend, State, Cfg, encInitialized, now, IdFor(input[2], State), input[1],
               input[2], "none", FALSE, 0)
\* TacoStorage.retrieve(id, signer) called after the call c, nothing failing
RetrieveAfter(c, id) ==
  storageRetrieve(backend, c.out.st, Cfg, c.encInit, id, "none", 0, TRUE)

\* C1: round trip by id on every backend: when TacoStorage.store(p, ...) of a
\* non-empty plaintext p succeeds with result r, TacoStorage.retrieve(r.id, ...)
\* on the same instance succeeds and returns p.
C1_RoundTripById ==
  backend \in {"sqlite", "kubo", "helia"} =>
    \A input \in StoredInputs :
      (CanName(input[2], State) /\ StoreNow(input).out.ok) =>
        LET c == StoreNow(input)
            g == RetrieveAfter(c, IdStr(c.out.res.id))
        IN g.out.ok /\ g.out.data = input[1]

\* what adapter.store is handed: a payload and its metadata, as TacoStorage.store
\* builds them or as a direct caller does
StorePairs ==
  {<<U8(StoreNow(input).handed.payload), StoreNow(input).handed.metadata>> :
     input \in {i \in StoredInputs : CanName(i[2], State)}}
  \cup {<<U8(Envelope), AdapterMetadata(2)>>}
\* the adapter's methods called on the state st, nothing failing
StoreOn(st, pair) == adapterStore(backend, st, Cfg, 0, pair[1], pair[2])
RetrieveOn(st, id) == adapterRetrieve(backend, st, Cfg, 0, TRUE, id)
ExistsOn(st, id) == adapterExists(backend, st, Cfg, 0, id)
DeleteOn(st, id) == adapterDelete(backend, st, Cfg, 0, id)

\* C2: the reference alone resolves the stored object on every backend: right
\* after adapter.store(payload, metadata) returns r, adapter.retrieve(r.reference)
\* returns that payload and metadata, adapter.exists(r.reference) returns true,
\* and adapter.delete(r.reference) removes the object.
C2_ReferenceResolves ==
  backend \in Shipped =>
    \A pair \in StorePairs :
      StoreOn(State, pair).ok =>
        LET out == StoreOn(State, pair)
            ref == out.res.reference
            got == RetrieveOn(out.st, ref)
            ex == ExistsOn(out.st, ref)
            del == DeleteOn(out.st, ref)
        IN /\ got.ok /\ got.data = pair[1].bytes /\ got.meta = pair[2]
           /\ ex.ok /\ ex.bool
           /\ del.ok /\ del.bool
           /\ ~RetrieveOn(del.st, ref).ok
           /\ ExistsOn(del.st, ref).ok /\ ~ExistsOn(del.st, ref).bool

\* two stores with the same explicit id, one after the other, nothing failing
SameIdPairs ==
  {pp \in StorePairs \X StorePairs : pp[1][2].id = pp[2][2].id /\ pp[1][2].id \in CallerIds}
\* after the second store: every order of the listing holds the id exactly once,
\* retrieve by the id returns the second payload with the second metadata's size
\* and content type, and no locator of the first store (its id, its reference)
\* gives anything else
LastWriteWins(pp) ==
  LET first == StoreOn(State, pp[1])
      second == StoreOn(first.st, pp[2])
      id == IdStr(pp[2][2].id)
      got == RetrieveOn(second.st, id)
  IN (first.ok /\ second.ok) =>
       /\ \A order \in OrderedKeys(second.st.items) :
            LET l == adapterList(backend, second.st, Cfg, 0, order, DefaultLimit,
                                 DefaultOffset)
            IN l.ok /\ Cardinality({i \in DOMAIN l.ids : l.ids[i] = pp[2][2].id}) = 1
       /\ got.ok /\ got.data = pp[2][1].bytes
       /\ got.meta.size = pp[2][2].size /\ got.meta.contentType = pp[2][2].contentType
       /\ \A loc \in {IdStr(first.res.id), first.res.reference} :
            LET old == RetrieveOn(second.st, loc)
            IN old.ok => (old.data = pp[2][1].bytes /\ old.meta.size = pp[2][2].size)

C4_AbsenceSemantics ==
  (backend \in Shipped /\ Ready) =>
    \A id \in {l \in Locators : validateId(l) /\ ~Resolves(backend, State, l)} :
      LET got == RetrieveOn(State, id)
          del == DeleteOn(State, id)
          ex == ExistsOn(State, id)
      IN /\ ~got.ok /\ got.err.typed /\ got.err.type = "NOT_FOUND"
         /\ del.ok /\ ~del.bool
         /\ ex.ok /\ ~ex.bool

\* every fault a call of store may meet: <<encFault, bytesFault, fault>>
AllStoreFaults == EncFaults \X BOOLEAN \X FaultPoints
StoreWith(input, f) ==
  storageStore(backend, State, Cfg, encInitialized, now, IdFor(input[2], State), input[1],
               input[2], f[1], f[2], f[3])
EmptyInputs == {input \in StoreInputs : Len(input[1]) = 0}

\* C5: empty-input rejection: TacoStorage.store called with empty data fails with
\* InvalidConfig, and in that call neither the encryption service's encrypt nor
\* the adapter's store is invoked, so the backend state is unchanged.
C5_EmptyInputRejected ==
  \A data \in {EmptyBytes}, input \in StoreInputs, f \in AllStoreFaults :
    CanName(input[2], State) =>
      LET c == StoreWith(<<data, input[2]>>, f)
      IN /\ ~c.out.ok
         /\ c.out.err.typed /\ c.out.err.type = "INVALID_CONFIG"
         /\ "encrypt" \notin c.calls /\ "adapter.store" \notin c.calls
         /\ c.out.st = State /\ c.encInit = encInitialized

\* store was called with empty data and rejected it before calling anything
C5_Witness ==
  /\ last.op = "store" /\ last.via = "storage" /\ ~last.ok
  /\ last.err = TacoStorageError("INVALID_CONFIG", "TacoStorage.store", NoCause)
  /\ ~last.called

\* C6: adapter-level payload validation: adapter.store called with an empty or
\* invalid payload (null, not a byte array, zero length) fails with a typed
\* StorageError (a TacoStorageError), and nothing is persisted.
C6_InvalidPayloadTyped ==
  backend \in Shipped =>
    \A x \in {NullData, OtherData, U8(EmptyBytes)} :
      LET out == StoreOn(State, <<x, AdapterMetadata(0)>>)
      IN /\ ~out.ok
         /\ IsTacoStorageError(out.err) /\ out.err.type = "STORAGE_ERROR"
         /\ out.st = State

\* the error policy: a typed error reaches the caller as it is, any other
\* wrapped once, with the given type, the original being its cause
Policy(err, raised, wrapType) ==
  IF IsTacoStorageError(raised) THEN err = raised
  ELSE /\ IsTacoStorageError(err) /\ err.type = wrapType
       /\ err.cause = Flat(raised)
\* the error raised inside the try block of the call c of store
RaisedInStore(c, data, f) ==
  IF "adapter.store" \in c.calls
  THEN adapterStore(backend, State, Cfg, f[3], U8(c.handed.payload), c.handed.metadata).err
  ELSE IF "encrypt" \in c.calls
  THEN IF encrypt(encInitialized, f[1], data, c.encCond).ok THEN PlainError("toBytes")
       ELSE encrypt(encInitialized, f[1], data, c.encCond).err
  ELSE TacoStorageError("INVALID_CONFIG", "createTimeCondition", NoCause)
\* the error raised inside the try block of the call c of retrieve(id)
RaisedInRetrieve(c, id, f) ==
  LET got == adapterRetrieve(backend, State, Cfg, f[2], f[3], id)
  IN IF "decrypt" \in c.calls
     THEN decrypt(encInitialized, f[1], fromBytes(got.meta.encryptionMetadata.messageKit)).err
     ELSE IF "fromBytes" \in c.calls THEN PlainError("fromBytes")
     ELSE got.err
AllRetrieveFaults == EncFaults \X FaultPoints \X BOOLEAN

\* C7: error policy of TacoStorage.store and TacoStorage.retrieve: an error of
\* condition creation, encryption, (de)serialisation of the envelope, decryption
\* or the adapter that is a typed storage error reaches the caller as the
\* identical error; any other error reaches the caller wrapped exactly once, as
\* StorageError from store and as RetrievalError from retrieve, with the original
\* error as its cause.
C7_ErrorPolicy ==
  /\ \A input \in StoreInputs \ EmptyInputs, f \in AllStoreFaults :
       (CanName(input[2], State) /\ ~StoreWith(input, f).out.ok) =>
         LET c == StoreWith(input, f)
         IN Policy(c.out.err, RaisedInStore(c, input[1], f), "STORAGE_ERROR")
  /\ \A id \in Locators \ {EmptyStr}, f \in AllRetrieveFaults :
       LET c == storageRetrieve(backend, State, Cfg, encInitialized, id, f[1], f[2], f[3])
       IN ~c.out.ok => Policy(c.out.err, RaisedInRetrieve(c, id, f), "RETRIEVAL_ERROR")

\* store met an error that is no typed storage error and threw it wrapped
C7_Witness ==
  /\ last.op = "store" /\ last.via = "storage" /\ ~last.ok
  /\ last.err.typed /\ last.err.type = "STORAGE_ERROR" /\ last.err.at = "TacoStorage.store"
  /\ last.err.cause = Flat(PlainError("toBytes"))

\* C8: the passthrough operations TacoStorage.delete, exists, list and cleanup
\* follow the wrap-unless-already-typed policy: a typed storage error the adapter
\* raises reaches the caller as that same error, never inside another typed error.
C8_PassthroughPolicy ==
  /\ \A id \in Locators \ {EmptyStr}, fault \in FaultPoints :
       /\ LET c == storageDelete(backend, State, Cfg, encInitialized, id, fault)
          IN ~c.out.ok =>
               Policy(c.out.err, adapterDelete(backend, State, Cfg, fault, id).err,
                      "STORAGE_ERROR")
       /\ LET c == storageExists(backend, State, Cfg, encInitialized, id, fault)
          IN ~c.out.ok =>
               Policy(c.out.err, adapterExists(backend, State, Cfg, fault, id).err,
                      "STORAGE_ERROR")
  /\ \A order \in OrderedKeys(items), fault \in FaultPoints :
       hasList =>
         LET c == storageList(backend, hasList, State, Cfg, encInitialized, fault, order,
                              DefaultLimit, DefaultOffset)
         IN ~c.out.ok =>
              Policy(c.out.err,
                     adapterList(backend, State, Cfg, fault, order, DefaultLimit,
                                 DefaultOffset).err,
                     "RETRIEVAL_ERROR")
  /\ \A fault \in FaultPoints :
       LET c == storageCleanup(backend, State, schema, isClosed, client, fault)
       IN ~c.ok =>
            Policy(c.err, adapterCleanup(backend, State, schema, isClosed, client, fault).err,
                   "ADAPTER_ERROR")

AllProbes == FaultPoints \X {"ok", "corrupt"}

\* C9: getHealth never throws: in every adapter state (never initialized,
\* initialized, backend unreachable, cleaned up) the getHealth of each shipped
\* adapter and TacoStorage.getHealth return a value; whenever probing fails (a
\* probe throws, or there is nothing to probe) the value has healthy = false and
\* an error among its details; and a failure thrown by an adapter's getHealth is
\* converted by the orchestrator into { healthy: false, details: { error } }.
C9_GetHealthNeverThrows ==
  \A probe \in AllProbes :
    LET got == adapterGetHealth(backend, State, Cfg, probe[1], probe[2])
        c == storageGetHealth(backend, State, Cfg, encInitialized, probe[1], probe[2])
    IN /\ backend \in Shipped =>
            /\ got.ok
            /\ got.probeFailed => (~got.health.healthy /\ got.health.hasError)
       /\ c.out.ok
       /\ c.out.probeFailed => (~c.out.health.healthy /\ c.out.health.hasError)
       /\ ~got.ok => c.out.health = [healthy |-> FALSE, hasError |-> TRUE]
       /\ c.out.st = State

\* the adapter's getHealth threw and TacoStorage.getHealth returned unhealthy
\* with the error
C9_Witness ==
  /\ last.op = "getHealth" /\ last.via = "storage" /\ last.ok
  /\ last.called /\ last.aerr # NoErr
  /\ last.health = [healthy |-> FALSE, hasError |-> TRUE]

\* C10: a missing list capability is reported distinctly from an empty result:
\* TacoStorage.list on an adapter without list fails with AdapterError and never
\* returns an array; on an adapter with list that is ready and holds no objects it
\* returns the empty array.
C10_MissingListDistinct ==
  \A order \in OrderedKeys(items), page \in Pages, fault \in FaultPoints :
    LET c == storageList(backend, hasList, State, Cfg, encInitialized, fault, order,
                         page[1], page[2])
    IN /\ ~hasList =>
            /\ ~c.out.ok
            /\ c.out.err = TacoStorageError("ADAPTER_ERROR", "TacoStorage.list", NoCause)
            /\ "adapter.list" \notin c.calls
       /\ (hasList /\ items = {} /\ fault = 0 /\ (backend = "sqlite" => Ready)) =>
            (c.out.ok /\ c.out.ids = <<>>)

\* list was called on an adapter without list and failed with AdapterError
C10_Witness ==
  /\ ~hasList
  /\ last.op = "list" /\ last.via = "storage" /\ ~last.ok /\ ~last.called
  /\ last.err.typed /\ last.err.type = "ADAPTER_ERROR"

\* the tables a listing is taken of: the table as it is, and with one and two
\* more objects stored under ids of their own, created now
MoreIds == <<"b", "c">>
ListTables ==
  LET s1 == StoreOn(State, <<U8(Envelope), [AdapterMetadata(2) EXCEPT !.id = MoreIds[1]]>>)
      s2 == StoreOn(s1.st, <<U8(Envelope), [AdapterMetadata(2) EXCEPT !.id = MoreIds[2]]>>)
  IN {State} \cup (IF s1.ok /\ s2.ok THEN {s1.st, s2.st} ELSE {})
PageLimits == 0..3
PageOffsets == 0..5
Min(x, y) == IF x < y THEN x ELSE y
Max(x, y) == IF x > y THEN x ELSE y
\* list(limit, offset) of the table st, through TacoStorage and on the adapter
ListOn(st, order, limit, offset) ==
  storageList(backend, hasList, st, Cfg, encInitialized, 0, order, limit, offset).out
AdapterListOn(st, order, limit, offset) ==
  adapterList(backend, st, Cfg, 0, order, limit, offset)
\* the places <<page, index>> at which the consecutive pages of limit k hold id
PlacesOf(st, order, k, id) ==
  {pl \in (0..Cardinality(st.items)) \X (1..k) :
     LET page == ListOn(st, order, k, pl[1] * k).ids
     IN pl[2] <= Len(page) /\ page[pl[2]] = id}

\* C11: list pagination on the backend that lists (SQLite): with N objects of
\* distinct ids stored, list(limit = k, offset = m) returns exactly
\* max(0, min(k, N - m)) ids; the consecutive pages list(k, 0), list(k, k), ...
\* of the unchanged table hold every stored id exactly once and nothing else,
\* also when objects share their createdAt.
C11_ListPagination ==
  (backend = "sqlite" /\ Ready) =>
    \A st \in ListTables : \A order \in OrderedKeys(st.items) :
      LET N == Cardinality(st.items)
          stored == {r.key : r \in st.items}
      IN /\ \A k \in PageLimits, m \in PageOffsets :
              /\ ListOn(st, order, k, m).ok
              /\ Len(ListOn(st, order, k, m).ids) = Max(0, Min(k, N - m))
              /\ AdapterListOn(st, order, k, m).ok
              /\ AdapterListOn(st, order, k, m).ids = ListOn(st, order, k, m).ids
              /\ \A i \in DOMAIN ListOn(st, order, k, m).ids :
                   ListOn(st, order, k, m).ids[i] \in stored
         /\ \A k \in PageLimits \ {0} : \A id \in stored :
              Cardinality(PlacesOf(st, order, k, id)) = 1

\* list returned a page of one id while two objects with the same createdAt
\* were stored
C11_Witness ==
  /\ backend = "sqlite"
  /\ last.op = "list" /\ last.via = "storage" /\ last.ok /\ Len(last.ids) = 1
  /\ Cardinality(items) = 2
  /\ \A r1, r2 \in items : r1.created_at = r2.created_at

Listed(st, id) ==
  \A order \in OrderedKeys(st.items) :
    LET l == ListOn(st, order, DefaultLimit, DefaultOffset)
    IN l.ok /\ \E i \in DOMAIN l.ids : IdStr(l.ids[i]) = id
Unlisted(st, id) ==
  \A order \in OrderedKeys(st.items) :
    LET l == ListOn(st, order, DefaultLimit, DefaultOffset)
    IN l.ok /\ \A i \in DOMAIN l.ids : IdStr(l.ids[i]) # id
\* exists(id) on the table st, through TacoStorage and on the adapter
IsThere(st, id) ==
  LET c == storageExists(backend, st, Cfg, encInitialized, id, 0)
  IN c.out.ok /\ c.out.bool /\ ExistsOn(st, id).ok /\ ExistsOn(st, id).bool
\* the stored object is there: in every state of the ready adapter each stored
\* id exists and is listed, and so is the id of a store that succeeds now
StoredIsThere ==
  (backend = "sqlite" /\ Ready) =>
    /\ \A r \in items : IsThere(State, IdStr(r.key)) /\ Listed(State, IdStr(r.key))
    /\ \A input \in StoredInputs :
         (CanName(input[2], State) /\ StoreNow(input).out.ok) =>
           LET c == StoreNow(input)
           IN /\ IsThere(c.out.st, IdStr(c.out.res.id))
              /\ Listed(c.out.st, IdStr(c.out.res.id))
\* after delete(id) has returned true nothing of the object is left
DeletedIsGone ==
  (backend = "sqlite" /\ Ready) =>
    \A id \in Locators \ {EmptyStr}, fault \in FaultPoints :
      LET c == storageDelete(backend, State, Cfg, encInitialized, id, fault)
          st == c.out.st
          ex == storageExists(backend, st, Cfg, encInitialized, id, 0)
          got == storageRetrieve(backend, st, Cfg, encInitialized, id, "none", 0, TRUE)
      IN (c.out.ok /\ c.out.bool) =>
           /\ ex.out.ok /\ ~ex.out.bool
           /\ ExistsOn(st, id).ok /\ ~ExistsOn(st, id).bool
           /\ ~got.out.ok /\ got.out.err.typed /\ got.out.err.type = "NOT_FOUND"
           /\ ~RetrieveOn(st, id).ok /\ RetrieveOn(st, id).err.type = "NOT_FOUND"
           /\ Unlisted(st, id)
           /\ RowsWithKey(st.items, id) = {}
           /\ RowsWithKey(st.item_data, id) = {}
\* a stored id leaves the table in a call of delete only
GoneByDeleteOnly ==
  backend = "sqlite" =>
    \A r \in items : (\A r2 \in items' : r2.key # r.key) => last'.op = "delete"

\* C13: store/delete lifecycle on the keyed backend (SQLite): after store(id)
\* succeeds, exists(id) is true and list contains id until a delete; after
\* delete(id) returns true, metadata and payload are both gone: exists(id) is
\* false, retrieve(id) raises NotFound, list no longer contains id, and no
\* payload row for id remains.
C13_StoreDeleteLifecycle ==
  /\ [](StoredIsThere /\ DeletedIsGone)
  /\ [][GoneByDeleteOnly]_vars

\* delete returned true for a stored object and left both tables empty
C13_Witness ==
  /\ backend = "sqlite"
  /\ last.op = "delete" /\ last.via = "storage" /\ last.ok /\ last.bool
  /\ items = {} /\ item_data = {}

\* TacoStorage.exists(id) and adapter.exists(id) called now, the query failing
\* when fault = 1
StorageExistsNow(id, fault) ==
  storageExists(backend, State, Cfg, encInitialized, id, fault).out
AdapterExistsNow(id, fault) == adapterExists(backend, State, Cfg, fault, id)
\* the existence of what the locator names cannot be proven
Unprovable(id, fault) == ~Resolves(backend, State, id) \/ fault = 1

C15_ExistsThrowsUninitialized ==
  (backend \in Shipped /\ ~Ready) =>
    \A id \in Locators \ {EmptyStr} : ~AdapterExistsNow(id, 0).ok

\* the locators that are not blank and do not parse as a content identifier
\* after the ipfs:// prefix is stripped
Malformed == {id \in Locators : validateId(id) /\ ~validateAndParseReferenceOk(id)}

\* C16: on a content-addressed backend, retrieve with a locator that does not
\* match the reference grammar (it does not parse as a content identifier after
\* stripping the ipfs:// prefix) fails with an error of type InvalidReference,
\* distinct from NotFound and RetrievalError.
C16_InvalidReferenceTyped ==
  (backend \in ContentAddressed /\ Ready) =>
    \A id \in Malformed :
      LET got == RetrieveOn(State, id)
      IN /\ ~got.ok
         /\ IsTacoStorageError(got.err)
         /\ got.err.type = "INVALID_REFERENCE"

\* C17: on the content-addressed backends a malformed locator is rejected before
\* any network call: for retrieve, exists and delete alike, when the locator does
\* not parse as a content identifier no call of the node's client (cat/get,
\* stat/has, pin removal) is issued during the operation.
C17_MalformedBeforeNetwork ==
  (backend \in ContentAddressed /\ Ready) =>
    \A id \in Malformed, fault \in 0..1 :
      /\ adapterRetrieve(backend, State, Cfg, fault, TRUE, id).net = {}
      /\ adapterExists(backend, State, Cfg, fault, id).net = {}
      /\ adapterDelete(backend, State, Cfg, fault, id).net = {}

\* the backends whose delete is an unpin
Unpinning == {"kubo", "helia", "pinata"}

\* C18 as written: on an initialized content-addressed adapter (Kubo, Helia,
\* Pinata), delete(locator) returns true for every non-empty locator: whether or
\* not the object was ever stored or pinned, whether or not the locator is
\* well-formed, and whether or not the unpin call fails; it never throws.
C18_DeleteAlwaysTrue ==
  (backend \in Unpinning /\ Ready) =>
    \A id \in Locators \ {EmptyStr}, fault \in FaultPoints :
      LET del == adapterDelete(backend, State, Cfg, fault, id)
      IN del.ok /\ del.bool

\* C18 amended: on an initialized content-addressed adapter (Kubo, Helia,
\* Pinata), delete(locator) returns true for every locator that is not blank:
\* whether or not the object was ever stored or pinned, whether or not the
\* locator is well-formed, and whether or not the unpin call fails; it never
\* throws for absence, and TacoStorage.delete returns that true.  For a
\* whitespace-only locator it throws an untyped Error.
C18_DeleteTrueUnlessBlank ==
  (backend \in Unpinning /\ Ready) =>
    \A id \in Locators \ {EmptyStr}, fault \in FaultPoints :
      LET del == adapterDelete(backend, State, Cfg, fault, id)
          c == storageDelete(backend, State, Cfg, encInitialized, id, fault)
      IN IF TrimIsEmpty(id)
         THEN ~del.ok /\ del.err = PlainError("validateId") /\ del.st = State
         ELSE del.ok /\ del.bool /\ c.out.ok /\ c.out.bool

\* delete returned true on an initialized adapter whose backend never held
\* anything
C18_Witness ==
  /\ backend \in Unpinning /\ Ready
  /\ last.op = "delete" /\ last.via = "storage" /\ last.ok /\ last.bool
  /\ blocks = {} /\ pins = {} /\ files = <<>>

\* no initialize() of the adapter has succeeded: no schema, no client, no node
Uninitialized == ~schema /\ ~client /\ ~isClosed
\* the call failed with an AdapterError
FailsAdapterError(out) ==
  ~out.ok /\ IsTacoStorageError(out.err) /\ out.err.type = "ADAPTER_ERROR"

\* C19: operations require a successful initialize: store, retrieve and delete
\* called on a shipped adapter whose initialize() has not succeeded never report
\* success (no StorageResult, no payload, no boolean); each fails with an error
\* of type AdapterError.
C19_UninitializedAdapterError ==
  (backend \in Shipped /\ Uninitialized) =>
    /\ FailsAdapterError(StoreOn(State, <<U8(Envelope), AdapterMetadata(2)>>))
    /\ \A id \in {l \in Locators : validateId(l)} :
         /\ FailsAdapterError(RetrieveOn(State, id))
         /\ FailsAdapterError(DeleteOn(State, id))

\* adapter.initialize() called now, `fault` as in the adapters' initialize, and
\* the adapter's own state after it
InitializeNow(fault) == adapterInitialize(backend, State, schema, isClosed, client, fault)
CfgAfter(a) == [up |-> a.schema /\ ~a.isClosed, client |-> a.client]

\* C20: initialize is idempotent or fails loudly: a second initialize() on an
\* already-initialized shipped adapter (or encryption service) either raises an
\* error or leaves the same observable state as a single call, so every object
\* stored before the second call is still retrievable after it; initialize()
\* after cleanup() on the keyed adapter fails with AdapterError.
C20_InitializeIdempotent ==
  /\ (backend \in Shipped /\ Ready) =>
       \A fault \in FaultPoints :
         LET a == InitializeNow(fault)
         IN a.ok =>
              /\ CfgAfter(a) = Cfg
              /\ \A id \in {l \in Locators : Resolves(backend, State, l)} :
                   LET before == RetrieveOn(State, id)
                       after == adapterRetrieve(backend, a.st, CfgAfter(a), 0, TRUE, id)
                   IN /\ before.ok =>
                           (after.ok /\ after.data = before.data /\ after.meta = before.meta)
                      /\ adapterExists(backend, a.st, CfgAfter(a), 0, id).bool
                           = ExistsOn(State, id).bool
  /\ encInitialized =>
       \A encFault \in EncFaults : encryptionInitializeOk(encInitialized, encFault)
  /\ (backend = "sqlite" /\ isClosed) =>
       \A fault \in FaultPoints : FailsAdapterError(InitializeNow(fault))

\* ---- C21
\* cleanup() on the state a call left behind
CleanupAfter(b, a, fault) == adapterCleanup(b, a.st, a.schema, a.isClosed, a.client, fault)
CloseFaults == 0..1

\* C21: cleanup is safe to repeat and safe on a never-initialized instance: on
\* every shipped adapter, in every state (the never-initialized one included),
\* a cleanup() whose close of the connection succeeds returns; and whatever the
\* first cleanup() did, a second and a third one after it return without an
\* error, under every fault, and so does TacoStorage.cleanup.
C21_CleanupRepeatable ==
  backend \in Shipped =>
    /\ adapterCleanup(backend, State, schema, isClosed, client, 0).ok
    /\ \A f1 \in CloseFaults, f2 \in CloseFaults, f3 \in CloseFaults :
         LET a1 == adapterCleanup(backend, State, schema, isClosed, client, f1)
             a2 == CleanupAfter(backend, a1, f2)
             a3 == CleanupAfter(backend, a2, f3)
         IN /\ a2.ok /\ a3.ok
            /\ a2.st = State /\ a3.st = State
            /\ storageCleanup(backend, a1.st, a1.schema, a1.isClosed, a1.client, f2).ok
    /\ (last.op = "cleanup" /\ last.over => last.ok)

\* a cleanup() directly after a cleanup() has returned, on an adapter whose
\* initialize() never ran
C21_Witness ==
  /\ backend = "sqlite" /\ isClosed
  /\ last.op = "cleanup" /\ last.over /\ last.ok /\ last.called
  /\ ~schema /\ ~client /\ ~encInitialized

\* ---- C22
\* the ids the orchestrator rejects: the empty string and a non-string value
RejectedIds == {EmptyStr, NotAString}
\* the four operations of the orchestrator that take an id, called now
IdCalls(id, f) ==
  {storageRetrieve(backend, State, Cfg, encInitialized, id, f[1], f[2], f[3]),
   storageGetMetadata(backend, State, Cfg, encInitialized, id, f[2], f[3]),
   storageDelete(backend, State, Cfg, encInitialized, id, f[2]),
   storageExists(backend, State, Cfg, encInitialized, id, f[2])}

\* C22: identifier validation in the orchestrator: TacoStorage.retrieve,
\* delete, exists and getMetadata called with an empty or a non-string id fail
\* with InvalidConfig, and in that call no adapter method and no decryption is
\* invoked: the backend and the encryption service are as before the call.
C22_IdRejected ==
  \A id \in RejectedIds, f \in AllRetrieveFaults :
    \A c \in IdCalls(id, f) :
      /\ ~c.out.ok
      /\ c.out.err.typed /\ c.out.err.type = "INVALID_CONFIG" /\ c.out.err.cause = NoCause
      /\ c.calls = {}
      /\ c.out.st = State /\ c.encInit = encInitialized

\* one of the four was called with the empty id and rejected it before the
\* adapter was called
C22_Witness ==
  /\ last.op \in {"retrieve", "getMetadata", "delete", "exists"}
  /\ last.via = "storage" /\ ~last.ok /\ ~last.called
  /\ last.err.typed /\ last.err.type = "INVALID_CONFIG"

\* ---- C23
\* C23: the caller-facing id is the one assigned at store time on every backend:
\* for every successful TacoStorage.store with options.id supplied, the returned
\* StorageResult.id and StorageResult.metadata.id both equal options.id, and
\* without options.id both equal the freshly generated id placed in the
\* metadata, whichever shipped adapter is active.
C23_IdAssignedAtStore ==
  backend \in Shipped =>
    \A input \in StoredInputs, fault \in {0, 2} :
      LET id == IdFor(input[2], State)
          c == StoreWith(input, <<"none", FALSE, fault>>)
      IN (CanName(input[2], State) /\ c.out.ok) =>
           /\ c.out.res.id = id
           /\ c.out.res.metadata.id = id
           /\ c.handed.metadata.id = id
           /\ (input[2].id # "" => id = input[2].id)

\* ---- C24
\* the locators by which the stored object may be asked for: the id and the
\* reference of the result
LocatorsOf(res) == {IdStr(res.id), res.reference}

\* C24: adapters round-trip payload and metadata: on every shipped adapter,
\* after store(d, m) of a non-empty payload succeeds, retrieve of that object
\* (by the id or the reference store returned) succeeds and returns
\* encryptedData equal to d and metadata whose id, contentType, size, createdAt,
\* custom metadata and encryptionMetadata equal those of m, no field of
\* encryptionMetadata added or lost.
C24_AdapterRoundTrip ==
  backend \in Shipped =>
    \A pair \in StorePairs :
      StoreOn(State, pair).ok =>
        LET out == StoreOn(State, pair)
            m == pair[2]
        IN /\ \E l \in LocatorsOf(out.res) : RetrieveOn(out.st, l).ok
           /\ \A l \in LocatorsOf(out.res) :
                LET got == RetrieveOn(out.st, l)
                IN got.ok =>
                     /\ got.data = pair[1].bytes
                     /\ got.meta.id = m.id
                     /\ got.meta.contentType = m.contentType
                     /\ got.meta.size = m.size
                     /\ got.meta.createdAt = m.createdAt
                     /\ got.meta.metadata = m.metadata
                     /\ got.meta.encryptionMetadata = m.encryptionMetadata

\* ---- C25
\* expiries a caller may pass: none, one that has passed, one ahead
Expiries == {NoExpiry, 0, MaxTime + 1, DefaultExpiryHours + 7}
\* stores of non-empty data with and without a condition and an expiry
ConditionInputs ==
  {<<data, StoreOptions(i, "", "undefined", cond, exp)>> :
     data \in {<<2, 2>>}, i \in CallerIds,
     cond \in {NoCondition, CustomCondition, TimeCondition(3)}, exp \in Expiries}

StepCfg == [up |-> schema /\ ~isClosed /\ closeCalls = 0, client |-> client]
StepId == "a"
\* what the callers store: two payloads under one id, and the faults of the
\* encryption service
StepInputs == {<<(<<1>>), Defaults(StepId)>>, <<(<<2, 2>>), Explicit(StepId)>>}
StepEncFaults == {"none", "call"}

\* the state after construction and a TacoStorage.initialize() that succeeded
StepInit ==
  /\ NoneInProgress
  /\ backend \in Shipped
  /\ hasList = (backend = "sqlite")
  /\ LET c == storageInitialize(backend, Store({}, {}, <<>>, {}, {}), FALSE, FALSE, FALSE,
                                FALSE, 0, "none")
     IN /\ schema = c.out.schema
        /\ isClosed = FALSE
        /\ client = c.out.client
        /\ items = c.out.st.items
        /\ item_data = c.out.st.item_data
        /\ files = c.out.st.files
        /\ blocks = c.out.st.blocks
        /\ pins = c.out.st.pins
        /\ encInitialized = c.encInit
        /\ last = LastCall("initialize", "storage", c.out, TRUE, c.out)
  /\ now = 0

\* the call of caller p goes on at `at` with the arguments `args`
GoesOn(p, at, args) ==
  /\ pc' = [pc EXCEPT ![p] = at]
  /\ pending' = [pending EXCEPT ![p] = args]
  /\ UNCHANGED done
\* the call of caller p ends as d
Ends(p, d) ==
  /\ pc' = [pc EXCEPT ![p] = "idle"]
  /\ pending' = [pending EXCEPT ![p] = NoPending]
  /\ done' = [done EXCEPT ![p] = d]
Failed(op, e) == [NoDone EXCEPT !.op = op, !.ok = FALSE, !.err = e]
SqliteStoreError ==
  TacoStorageError("STORAGE_ERROR", "sqlite.store", Flat(PlainError("sqlite")))

\* a child row without the check of its parent
ForeignKeyUnchecked(st, row) == TRUE
\* FOREIGN KEY (key) REFERENCES items (key), with PRAGMA foreign_keys = ON
ForeignKeyHolds(st, row) == \E r \in st.items : r.key = row.key

\* TacoStorage.store up to the call of adapter.store: the check of the data, the
\* condition, the encryption, the metadata
StepStoreBegin(p) ==
  /\ pc[p] = "idle"
  /\ \E input \in StepInputs, encFault \in StepEncFaults :
       LET c == storageStore(backend, State, StepCfg, encInitialized, now,
                             IdFor(input[2], State), input[1], input[2], encFault, FALSE, 0)
       IN /\ encInitialized' = c.encInit
          /\ IF "adapter.store" \in c.calls
             THEN /\ GoesOn(p, IF backend = "sqlite" THEN "items" ELSE "upload",
                            [NoPending EXCEPT !.payload = c.handed.payload,
                                              !.metadata = c.handed.metadata])
                  /\ UNCHANGED <<items, item_data, files, blocks, pins>>
             ELSE /\ Ends(p, Failed("store", c.out.err))
                  /\ Becomes(c.out.st)
  /\ UNCHANGED <<backend, hasList, schema, isClosed, client, now, last, closeCalls>>

\* SQLiteAdapter.store up to its first await: validateData, INSERT OR REPLACE
\* INTO items
StepInsertItem(p) ==
  /\ pc[p] = "items"
  /\ \E fault \in 0..1 :
       IF ~validateData(U8(pending[p].payload))
       THEN Ends(p, Failed("store", storeCatch(PlainError("validateData"))))
            /\ UNCHANGED <<items, item_data>>
       ELSE IF ~StepCfg.up \/ fault = 1
       THEN Ends(p, Failed("store", storeCatch(SqliteStoreError)))
            /\ UNCHANGED <<items, item_data>>
       ELSE LET s1 == InsertOrReplaceItem(State, ItemRow(pending[p].metadata))
            IN /\ items' = s1.items
               /\ item_data' = s1.item_data
               /\ GoesOn(p, "data", pending[p])
  /\ UNCHANGED <<backend, hasList, schema, isClosed, client, files, blocks, pins,
                 encInitialized, now, last, closeCalls>>

\* SQLiteAdapter.store from its first await on: INSERT OR REPLACE INTO
\* item_data, and the result
StepInsertData(p) ==
  /\ pc[p] = "data"
  /\ \E fault \in 0..1 :
       LET row == DataRow(pending[p].metadata.id, pending[p].payload)
       IN IF ~StepCfg.up \/ fault = 1 \/ ~ForeignKeyHolds(State, row)
          THEN Ends(p, Failed("store", storeCatch(SqliteStoreError)))
               /\ UNCHANGED <<items, item_data>>
          ELSE LET s2 == InsertOrReplaceData(State, row)
               IN /\ items' = s2.items
                  /\ item_data' = s2.item_data
                  /\ Ends(p, [NoDone EXCEPT !.op = "store", !.data = pending[p].payload,
                                            !.meta = pending[p].metadata])
  /\ UNCHANGED <<backend, hasList, schema, isClosed, client, files, blocks, pins,
                 encInitialized, now, last, closeCalls>>

\* the store of the Kubo, Helia and Pinata adapter: the package of payload and
\* metadata goes to the node or the service in one call
StepUpload(p) ==
  /\ pc[p] = "upload"
  /\ \E fault \in 0..2 :
       LET out == adapterStore(backend, State, StepCfg, fault, U8(pending[p].payload),
                               pending[p].metadata)
       IN /\ RowsWithin(out.st)
          /\ Becomes(out.st)
          /\ Ends(p, IF out.ok
                     THEN [NoDone EXCEPT !.op = "store", !.data = pending[p].payload,
                                         !.meta = out.res.metadata]
                     ELSE Failed("store", storeCatch(out.err)))
  /\ UNCHANGED <<backend, hasList, schema, isClosed, client, encInitialized, now, last,
                 closeCalls>>

\* SQLiteAdapter.delete up to its first await: validateId, exists
StepDeleteBegin(p) ==
  /\ pc[p] = "idle" /\ backend = "sqlite"
  /\ LET id == IdStr(StepId)
         before == sqliteExists(State, StepCfg.up, 0, id)
     IN IF ~before.ok
        THEN Ends(p, Failed("delete", TacoStorageError("STORAGE_ERROR", "sqlite.delete",
                                                       Flat(before.err))))
        ELSE IF ~before.bool THEN Ends(p, [NoDone EXCEPT !.op = "delete"])
        ELSE GoesOn(p, "delete", [NoPending EXCEPT !.id = id])
  /\ UNCHANGED <<backend, hasList, schema, isClosed, client, items, item_data, files,
                 blocks, pins, encInitialized, now, last, closeCalls>>

\* DELETE FROM items WHERE key = ?; the flag: the statement removed a row
StepDeleteRun(p) ==
  /\ pc[p] = "delete"
  /\ IF ~StepCfg.up
     THEN Ends(p, Failed("delete", TacoStorageError("STORAGE_ERROR", "sqlite.delete",
                                                    Flat(PlainError("sqlite")))))
          /\ UNCHANGED <<items, item_data>>
     ELSE LET s1 == DeleteItem(State, pending[p].id)
          IN /\ items' = s1.items
             /\ item_data' = s1.item_data
             /\ GoesOn(p, "after",
                       [pending[p] EXCEPT !.flag = RowsWithKey(items, pending[p].id) # {}])
  /\ UNCHANGED <<backend, hasList, schema, isClosed, client, files, blocks, pins,
                 encInitialized, now, last, closeCalls>>

\* the second exists of SQLiteAdapter.delete, and the result
StepDeleteAfter(p) ==
  /\ pc[p] = "after"
  /\ LET after == sqliteExists(State, StepCfg.up, 0, pending[p].id)
     IN IF ~after.ok
        THEN Ends(p, [Failed("delete", TacoStorageError("STORAGE_ERROR", "sqlite.delete",
                                                        Flat(after.err)))
                        EXCEPT !.removed = pending[p].flag])
        ELSE Ends(p, [NoDone EXCEPT !.op = "delete", !.bool = ~after.bool,
                                    !.removed = pending[p].flag])
  /\ UNCHANGED <<backend, hasList, schema, isClosed, client, items, item_data, files,
                 blocks, pins, encInitialized, now, last, closeCalls>>

\* SQLiteAdapter.retrieve: one SELECT over items and item_data
StepRetrieve(p) ==
  /\ pc[p] = "idle" /\ backend = "sqlite"
  /\ LET out == sqliteRetrieve(State, StepCfg.up, 0, IdStr(StepId))
     IN Ends(p, IF out.ok
                THEN [NoDone EXCEPT !.op = "retrieve", !.data = out.data, !.meta = out.meta]
                ELSE Failed("retrieve", out.err))
  /\ UNCHANGED <<backend, hasList, schema, isClosed, client, items, item_data, files,
                 blocks, pins, encInitialized, now, last, closeCalls>>

\* SQLiteAdapter.cleanup up to the call of db.close; the flag: this call of
\* db.close is the first the connection receives
StepCleanupBegin(p) ==
  /\ pc[p] = "idle" /\ backend = "sqlite"
  /\ IF isClosed
     THEN Ends(p, [NoDone EXCEPT !.op = "cleanup"]) /\ UNCHANGED closeCalls
     ELSE /\ closeCalls' = closeCalls + 1
          /\ GoesOn(p, "closing", [NoPending EXCEPT !.flag = (closeCalls = 0)])
  /\ UNCHANGED <<backend, hasList, schema, isClosed, client, items, item_data, files,
                 blocks, pins, encInitialized, now, last>>

\* the callback of db.close: isClosed = true, then reject or resolve; a close
\* of a connection that is closing or closed reports 'Database is closed'
StepCleanupDone(p) ==
  /\ pc[p] = "closing"
  /\ isClosed' = TRUE
  /\ Ends(p, IF pending[p].flag THEN [NoDone EXCEPT !.op = "cleanup"]
             ELSE Failed("cleanup", TacoStorageError("ADAPTER_ERROR", "sqlite.cleanup",
                                                     Flat(PlainError("sqlite")))))
  /\ UNCHANGED <<backend, hasList, schema, client, items, item_data, files, blocks, pins,
                 encInitialized, now, last, closeCalls>>

StepNext ==
  \E p \in Callers :
    \/ StepStoreBegin(p)
    \/ StepInsertItem(p)
    \/ StepInsertData(p)
    \/ StepUpload(p)
    \/ StepDeleteBegin(p)
    \/ StepDeleteRun(p)
    \/ StepDeleteAfter(p)
    \/ StepRetrieve(p)
    \/ StepCleanupBegin(p)
    \/ StepCleanupDone(p)

StepSpec == StepInit /\ [][StepNext]_vars

\* ---- C26
\* a metadata record with its required fields, as a row of items and as the
\* metadata of a stored package
CompleteRow(r) ==
  /\ r.key # "" /\ r.content_type # "" /\ r.message_kit # EmptyBytes
  /\ r.conditions # JSONStringify(NoCondition)
CompleteMetadata(m) ==
  /\ m.id # "" /\ m.contentType # "" /\ m.encryptionMetadata.messageKit # EmptyBytes
  /\ m.encryptionMetadata.conditions # NoCondition
\* every payload the backend holds comes with a complete metadata record of
\* its id
NoPayloadWithoutMetadata ==
  /\ \A d \in item_data : \E r \in items : r.key = d.key /\ CompleteRow(r)
  /\ backend \in ContentAddressed =>
       \A c \in blocks : CompleteMetadata(JSONParse(BlockOf(c)).metadata)
  /\ backend = "pinata" =>
       \A c \in DOMAIN files : CompleteMetadata(JSONParse(files[c]).metadata)
\* stores of data under a condition, under an expiry that has passed, and of
\* no data
SequencedInputs ==
  StepInputs
  \cup {<<(<<1>>), StoreOptions(StepId, "", "undefined", NoCondition, 0)>>,
        <<EmptyBytes, Explicit(StepId)>>}
\* TacoStorage.store calls adapter.store only with what an encryption that
\* succeeded returned, and leaves the backend alone when it does not call it
EncryptThenPersist ==
  \A input \in SequencedInputs, f \in EncFaults \X BOOLEAN \X {0, 2} :
    CanName(input[2], State) =>
      LET c == storageStore(backend, State, StepCfg, encInitialized, now,
                            IdFor(input[2], State), input[1], input[2], f[1], f[2], f[3])
          enc == encrypt(encInitialized, f[1], input[1], c.encCond)
      IN /\ "adapter.store" \in c.calls =>
              /\ "encrypt" \in c.calls /\ enc.ok
              /\ c.handed.payload = toBytes(enc.messageKit)
              /\ c.handed.metadata.encryptionMetadata.conditions = enc.conditions
         /\ "adapter.store" \notin c.calls => ~c.out.ok /\ c.out.st = State
\* a store that ended before adapter.store was called changed nothing
FailedBeforeStoreKeeps ==
  \A p \in Callers :
    (pc[p] = "idle" /\ pc'[p] = "idle" /\ done'[p] # done[p] /\ done'[p].op = "store") =>
      State' = State

\* C26: encryption and persistence are sequenced with no partial state: a
\* TacoStorage.store attempt invokes adapter.store only after encryption has
\* succeeded (if condition creation or encryption fails the backend is
\* unchanged), and in every reachable backend state, also after an
\* adapter.store that failed part-way and between the steps of an adapter.store
\* in progress, with calls of other callers in between, no payload is persisted
\* for an id without a complete metadata record for that id.
C26_EncryptThenPersist ==
  /\ [](EncryptThenPersist /\ NoPayloadWithoutMetadata)
  /\ [][FailedBeforeStoreKeeps]_vars

\* a store on the keyed backend is between its two statements: the metadata
\* row of the id is written, its payload is not
C26_Witness ==
  /\ backend = "sqlite"
  /\ \E p \in Callers :
       /\ pc[p] = "data"
       /\ \E r \in items : r.key = pending[p].metadata.id
       /\ item_data = {}

\* ---- C27
\* every caller's last call was a store that returned, and none is in progress
AllStored == \A p \in Callers : pc[p] = "idle" /\ done[p].op = "store" /\ done[p].ok
\* the object under the id is the payload and the metadata of caller p's store
StoredWhole(p) ==
  /\ items = {ItemRow(done[p].meta)}
  /\ item_data = {DataRow(done[p].meta.id, done[p].data)}

\* C27: concurrent stores with the same id are last-write-wins as a whole: under
\* every interleaving of two store calls with the same id on the keyed backend,
\* once both have completed the object stored under that id is the payload and
\* the metadata of one of the two calls, never the payload of one combined with
\* the metadata of the other.
C27_ConcurrentStoresWhole ==
  (backend = "sqlite" /\ AllStored) => \E p \in Callers : StoredWhole(p)

\* ---- C28
\* C28: delete reports what it did, also under concurrency: on the keyed
\* backend, under every interleaving of delete and store calls on one id, a
\* delete call that returns has returned true if and only if its DELETE
\* statement removed the object with that id: two deletes of one stored object
\* do not both return true, and a delete that removed the object does not
\* return false because a store re-created it.
C28_DeleteReportsRemoval ==
  backend = "sqlite" =>
    \A p \in Callers :
      (done[p].op = "delete" /\ done[p].ok) => (done[p].bool <=> done[p].removed)

\* ---- C29
\* C29: a retrieved payload is never empty: in every reachable state of the
\* keyed backend, also while a store for the id is between its metadata write
\* and its payload write, during an overwrite, and after a store whose payload
\* write failed, every adapter.retrieve(id) that succeeds returns a non-empty
\* encryptedData, the payload of the store call whose metadata it returns (the
\* envelope that call recorded as messageKit).
C29_RetrievedPayloadWhole ==
  backend = "sqlite" =>
    LET got == sqliteRetrieve(State, StepCfg.up, 0, IdStr(StepId))
    IN got.ok =>
         /\ got.data # EmptyBytes
         /\ validateData(U8(got.data))
         /\ got.data = got.meta.encryptionMetadata.messageKit

\* ---- C30
\* every cleanup that has ended returned without an error, and the connection
\* has received at most one call of db.close
CleanupsReturn ==
  /\ \A p \in Callers : done[p].op = "cleanup" => done[p].ok
  /\ closeCalls <= 1
\* once isClosed is set, a cleanup does not reach the connection
ClosedStaysUntouched == isClosed => closeCalls' = closeCalls

\* C30: overlapping cleanup calls are safe on the keyed adapter: when two
\* cleanup() calls on one SQLiteAdapter overlap (the second starts before the
\* close of the first has completed), the connection is closed exactly once and
\* both calls complete without raising an error; and once a cleanup has
\* completed, every later cleanup() returns without touching the connection.
C30_OverlappingCleanupSafe ==
  /\ [](backend = "sqlite" => CleanupsReturn)
  /\ [][ClosedStaysUntouched]_vars

====
